---- MODULE Spec2Model ----
(***************************************************************************)
(* pr-checks: the decision engine encoded by the generated workflows.      *)
(*                                                                         *)
(*   SpecGate     the merge gate of one pull request: check jobs report    *)
(*                commit statuses, the review-status job computes the      *)
(*                gate, the override-gate / restore-gate jobs react to     *)
(*                review submissions and dismissals.                       *)
(*   SpecTrigger  the check-trigger job: classification of one inbound     *)
(*                pull_request or issue_comment event into its outputs.    *)
(*                                                                         *)
(* Free-text descriptions are sequences of words, so that "description     *)
(* contains the keyword" is a membership test on the words.  Job outputs   *)
(* are strings as in the workflows ("true", "false", "" when unset).       *)
(***************************************************************************)
EXTENDS Integers, Sequences, FiniteSets, TLC

VARIABLES registry, pr, statuses, reviews, comments, last, event, decision, jobs,
          runs, cli, tested

vars == <<registry, pr, statuses, reviews, comments, last, event, decision, jobs,
          runs, cli, tested>>

gateVars == <<pr, statuses, reviews, comments, last>>

triggerVars == <<event, decision>>

\* the variables of the workflow runs and of the generator
toolVars == <<runs, cli, tested>>

----------------------------------------------------------------------------
(* Bounds *)

MaxStatuses == 3

MaxLines == 2

MaxChecks == 2

MaxTokens == 2

MaxRuns == 3

----------------------------------------------------------------------------
(* Constants of the templates *)

PR_CHECKS_STATUS_AsCheck == "pr-test"

PR_CHECKS_STATUS == "PR Checks Status"

OVERRIDE_KEYWORD == "Overridden"

OVERRIDE_DESCRIPTION_Unmarked == <<"Approved", "by", "reviewer">>

OVERRIDE_DESCRIPTION == <<"Overridden", "by", "approval">>

MSG_waiting == <<"Waiting", "for", "checks">>

MSG_inProgress == <<"Check", "in", "progress...">>

MSG_passed == <<"Check", "passed">>

MSG_allPassed == <<"All", "required", "checks", "passed">>

MSG_failed == <<"Check", "failed">>

MSG_approvalRequired == <<"Approval", "required">>

----------------------------------------------------------------------------
(* The host: users, commits, branches *)

Users == {"alice", "bob"}

HeadSha == "sha1"

PrNumber == "7"

BaseRefs == {"main", "dev"}

Range(s) == {s[i] : i \in 1..Len(s)}

----------------------------------------------------------------------------
(* Check registry *)

MkCheck(name, type, trigger, mustRun, mustPass, autoRunOn) ==
    [name |-> name, type |-> type, trigger |-> trigger,
     mustRun |-> mustRun, mustPass |-> mustPass, autoRunOn |-> autoRunOn]

\* autoRunOn is undefined (<<>>) or holds one set of pull_request actions (<<S>>)
Unset == <<>>

MkRegistry(platform, checks) ==
    [platform |-> platform, checks |-> checks, ciTrigger |-> "/checks",
     generateApprovalOverride |-> TRUE, branches |-> <<"main", "master">>]

\* registries of the trigger specification: both platforms, the first check
\* with and without mustRun and autoRunOn
TriggerRegistries ==
    {MkRegistry(platform,
        <<MkCheck("pr-test", "pr-test", "/test", r1, TRUE, a1),
          MkCheck("pr-review", "pr-review", "/review", r2, FALSE, Unset)>>) :
        platform \in {"github", "gitea"}, r1 \in BOOLEAN, r2 \in BOOLEAN,
        a1 \in {Unset, <<{"opened"}>>}}
    \cup
    \* a trigger is any trimmed, non-empty string that starts with '/'
    {MkRegistry(platform,
        <<MkCheck("pr-test", "pr-test", "/te.t", TRUE, TRUE, Unset),
          MkCheck("pr-review", "pr-review", "/review", TRUE, FALSE, Unset)>>) :
        platform \in {"github", "gitea"}}

\* registries of the gate specification: every mustRun / mustPass combination
GateRegistries ==
    {MkRegistry("github",
        <<MkCheck("pr-test", "pr-test", "/test", r1, p1, Unset),
          MkCheck("pr-review", "pr-review", "/review", r2, p2, Unset)>>) :
        r1 \in BOOLEAN, p1 \in BOOLEAN, r2 \in BOOLEAN, p2 \in BOOLEAN}

----------------------------------------------------------------------------
(* Commit statuses *)

ContainsWord(description, word) == word \in Range(description)

\* jq: [.[] | select(.context == ctx)] | sort_by(.updated_at) | last
\* jq's null, the value of `last` on an empty array
NullStatus ==
    [sha |-> "", context |-> "", state |-> "null", description |-> <<>>,
     updated_at |-> 0]

LatestStatusFirst(log, sha, ctx) ==
    LET idx == {i \in 1..Len(log) : log[i].sha = sha /\ log[i].context = ctx}
    IN  IF idx = {} THEN NullStatus
        ELSE LET i == CHOOSE i \in idx :
                        \A j \in idx : log[i].updated_at <= log[j].updated_at
             IN  log[i]

LatestStatus(log, sha, ctx) ==
    LET idx == {i \in 1..Len(log) : log[i].sha = sha /\ log[i].context = ctx}
    IN  IF idx = {} THEN NullStatus
        ELSE LET i == CHOOSE i \in idx :
                        \A j \in idx : log[j].updated_at <= log[i].updated_at
             IN  log[i]

StateOfNull(status) == status.state

\* jq -r '.state // "none"'
StateOf(status) == IF status.state = "null" THEN "none" ELSE status.state

\* STATE=$(curl -sf .../commits/$SHA/statuses | jq -r ...)
ReadState(log, sha, ctx) == StateOf(LatestStatus(log, sha, ctx))

\* jq -r '.description // ""'
DescriptionOf(status) == status.description

\* POST /statuses/$SHA
PostStatus(log, sha, ctx, state, description) ==
    Append(log, [sha |-> sha, context |-> ctx, state |-> state,
                 description |-> description, updated_at |-> Len(log) + 1])

GateStatus(log, sha) == LatestStatus(log, sha, PR_CHECKS_STATUS)

GateState(log, sha) == StateOf(GateStatus(log, sha))

----------------------------------------------------------------------------
(* Merge gate: review-status job *)

RequiredChecksAll(reg) == reg.checks

RequiredChecks(reg) == SelectSeq(reg.checks, LAMBDA c : c.mustRun)

CheckFailsGateStrict(check, state) == state # "success"

CheckFailsGateNoneOnly(check, state) ==
    IF check.mustPass THEN state # "success" ELSE state = "none"

CheckFailsGateAlways(check, state) == TRUE

\* the `if` of one check's block: TRUE when the check makes GATE_FAILED true
CheckFailsGate(check, state) ==
    IF check.mustPass
    THEN state # "success"
    ELSE state = "none" \/ state = "pending"

FailureReason(check) ==
    IF check.mustPass THEN <<check.name, "not", "passed">>
                      ELSE <<check.name, "not", "completed">>

\* the blocks run one after the other over GATE_FAILED / FAILURE_REASON
RECURSIVE CalculateGate(_, _, _, _)
CalculateGate(checks, i, states, acc) ==
    IF i > Len(checks) THEN acc
    ELSE CalculateGate(checks, i + 1, states,
            IF CheckFailsGate(checks[i], states[checks[i].name])
            THEN [failed |-> TRUE, reason |-> FailureReason(checks[i])]
            ELSE acc)

ApprovedCountNone(revs) == 0

\* jq '[.[] | select(.state == "APPROVED")] | length'
ApprovedCount(revs) == Cardinality({u \in DOMAIN revs : revs[u] = "APPROVED"})

HasApprovalsTwo(revs) == ApprovedCount(revs) > 1

\* [ "$APPROVALS" -gt 0 ]
HasApprovals(revs) == ApprovedCount(revs) > 0

\* the *_STATE variables of the job: the state read for each required check
ReadStates(log, sha) ==
    LET req == RequiredChecks(registry)
    IN  [n \in {req[i].name : i \in 1..Len(req)} |-> ReadState(log, sha, n)]

EventHeadFirst(pull) == HeadSha

\* github.event.pull_request.head.sha, and head_sha of check-trigger in a run
\* taken as one step: the head commit of the pull request when the event occurs
EventHead(pull) == pull.headSha

\* steps "Calculate merge gate" and "Check for approvals" for the commit sha,
\* given the states read: the log they leave and what they found
ReviewStatusSteps(log, sha, states, revs) ==
    LET req == RequiredChecks(registry)
        gate == CalculateGate(req, 1, states, [failed |-> FALSE, reason |-> <<>>])
        s1 == IF gate.failed
              THEN PostStatus(log, sha, PR_CHECKS_STATUS, "failure", MSG_approvalRequired)
              ELSE PostStatus(log, sha, PR_CHECKS_STATUS, "success", MSG_allPassed)
        approved == gate.failed /\ HasApprovals(revs)
    IN  [log |-> IF approved
                 THEN PostStatus(s1, sha, PR_CHECKS_STATUS, "success", OVERRIDE_DESCRIPTION)
                 ELSE s1,
         failed |-> gate.failed, reason |-> gate.reason, approved |-> approved]

ReviewStatusRun(states) ==
    /\ LET steps == ReviewStatusSteps(statuses, EventHead(pr), states, reviews)
       IN  /\ statuses' = steps.log
           /\ last' = [op |-> "review-status", failed |-> steps.failed,
                       reason |-> steps.reason, approved |-> steps.approved,
                       unread |-> {n \in DOMAIN states : states[n] = ""}]
    /\ Len(statuses') <= MaxStatuses
    /\ UNCHANGED <<registry, pr, reviews, comments, triggerVars, jobs, toolVars>>

ReviewStatusJob == ReviewStatusRun(ReadStates(statuses, EventHead(pr)))

----------------------------------------------------------------------------
(* Check jobs and the guide-comment job, as far as they write statuses *)

StatusDescription(state) ==
    CASE state = "pending" -> MSG_inProgress
      [] state = "success" -> MSG_passed
      [] OTHER -> MSG_failed

\* "Set pending status" / "Set final status" of a check job
CheckReport(i, state) ==
    /\ Len(statuses) < MaxStatuses
    /\ statuses' = PostStatus(statuses, EventHead(pr), registry.checks[i].name, state,
                              StatusDescription(state))
    /\ last' = [op |-> "check"]
    /\ UNCHANGED <<registry, pr, reviews, comments, triggerVars, jobs, toolVars>>

\* on.pull_request.branches and the base.ref conditions of the approval jobs
BranchCondition(reg, baseRef) == \E b \in Range(reg.branches) : baseRef = b

\* runs for the `opened` event, the first event of the pull request
GuideCommentJob ==
    /\ last.op = "init"
    /\ BranchCondition(registry, pr.baseRef)
    /\ Len(statuses) < MaxStatuses
    /\ comments' = Append(comments, [kind |-> "guide", user |-> ""])
    /\ statuses' = PostStatus(statuses, EventHead(pr), PR_CHECKS_STATUS, "pending", MSG_waiting)
    /\ last' = [op |-> "guide-comment"]
    /\ UNCHANGED <<registry, pr, reviews, triggerVars, jobs, toolVars>>

----------------------------------------------------------------------------
(* Approval override workflow: override-gate job *)

\* github.event.review.state of a submitted review
ReviewStates == {"approved", "commented"}

\* reviews[u] is the state, in the reviews API, of u's approving review
\* ("NONE" before u approved); a review that only comments adds an entry
\* of state COMMENTED to the list and leaves the approving review as it is
Submit(revs, user, state) ==
    IF state = "approved" THEN [revs EXCEPT ![user] = "APPROVED"] ELSE revs

Dismiss(revs, user) == [revs EXCEPT ![user] = "DISMISSED"]

\* generateWorkflows: pr-checks-approval.yml, the workflow of the jobs
\* override-gate and restore-gate, is generated only when the flag is set
ApprovalWorkflowGenerated(reg) == reg.generateApprovalOverride

OverrideGateIf(action, state, baseRef) ==
    /\ action = "submitted"
    /\ state = "approved"
    /\ BranchCondition(registry, baseRef)

OverrideNeededAlways(gateState) == TRUE

\* if [ "$GATE_STATE" != "success" ]
OverrideNeeded(gateState) == gateState # "success"

OverrideDescriptionPlain(user) == <<"Approved", "by", "(@" \o user \o ")">>

OverrideDescription(user) == OVERRIDE_DESCRIPTION \o <<"(@" \o user \o ")">>

OverrideGateJob(user) ==
    LET gateState == ReadState(statuses, EventHead(pr), PR_CHECKS_STATUS)
    IN  /\ IF OverrideNeeded(gateState)
           THEN /\ statuses' = PostStatus(statuses, EventHead(pr), PR_CHECKS_STATUS,
                                          "success", OverrideDescription(user))
                /\ comments' = Append(comments, [kind |-> "override", user |-> user])
           ELSE UNCHANGED <<statuses, comments>>
        /\ last' = [op |-> "override-gate", user |-> user]

\* pull_request_review, types: [submitted]
ReviewSubmitted(user, state) ==
    /\ reviews' = Submit(reviews, user, state)
    /\ IF ApprovalWorkflowGenerated(registry) /\ OverrideGateIf("submitted", state, pr.baseRef)
       THEN OverrideGateJob(user)
       ELSE /\ UNCHANGED <<statuses, comments>>
            /\ last' = [op |-> "review", state |-> state]
    /\ Len(statuses') <= MaxStatuses
    /\ UNCHANGED <<registry, pr, triggerVars, jobs, toolVars>>

----------------------------------------------------------------------------
(* Approval override workflow: restore-gate job *)

RestoreGateIf(action, baseRef) ==
    /\ action = "dismissed"
    /\ BranchCondition(registry, baseRef)

IsOverridden(status) ==
    /\ StateOf(status) = "success"
    /\ ContainsWord(DescriptionOf(status), OVERRIDE_KEYWORD)

RestoreGateJob(revs) ==
    LET req == RequiredChecks(registry)
        states == ReadStates(statuses, EventHead(pr))
        gate == CalculateGate(req, 1, states, [failed |-> FALSE, reason |-> <<>>])
        others == ApprovedCount(revs)
        applies == others = 0 /\ IsOverridden(GateStatus(statuses, EventHead(pr)))
    IN  /\ IF applies /\ gate.failed
           THEN /\ statuses' = PostStatus(statuses, EventHead(pr), PR_CHECKS_STATUS,
                                          "failure", MSG_approvalRequired)
                /\ comments' = Append(comments, [kind |-> "restore", user |-> ""])
           ELSE UNCHANGED <<statuses, comments>>
        /\ last' = [op |-> "restore-gate",
                    reason |-> IF applies /\ gate.failed THEN gate.reason ELSE <<>>]

\* pull_request_review, types: [dismissed]
ReviewDismissed(user) ==
    /\ reviews[user] = "APPROVED"
    /\ reviews' = Dismiss(reviews, user)
    /\ IF ApprovalWorkflowGenerated(registry) /\ RestoreGateIf("dismissed", pr.baseRef)
       THEN RestoreGateJob(reviews')
       ELSE /\ UNCHANGED <<statuses, comments>>
            /\ last' = [op |-> "dismissal"]
    /\ Len(statuses') <= MaxStatuses
    /\ UNCHANGED <<registry, pr, triggerVars, jobs, toolVars>>

----------------------------------------------------------------------------
(* The merge gate of one pull request *)

NoEvent == [kind |-> "none"]

NoDecision == [should_continue |-> ""]

NoJobs == <<>>

NoRuns == <<>>

\* no job has checked out a commit
NoTested == <<>>

NoCli == [op |-> "none"]

InitGate ==
    /\ registry \in GateRegistries
    /\ pr \in [number : {PrNumber}, headSha : {HeadSha}, baseRef : BaseRefs]
    /\ statuses = <<>>
    /\ reviews = [u \in Users |-> "NONE"]
    /\ comments = <<>>
    /\ last = [op |-> "init"]
    /\ event = NoEvent
    /\ decision = NoDecision
    /\ jobs = NoJobs
    /\ runs = NoRuns
    /\ cli = NoCli
    /\ tested = NoTested

NextGate ==
    \/ \E i \in 1..Len(registry.checks), st \in {"pending", "success", "failure"} :
          CheckReport(i, st)
    \/ GuideCommentJob
    \/ ReviewStatusJob
    \/ \E u \in Users, st \in ReviewStates : ReviewSubmitted(u, st)
    \/ \E u \in Users : ReviewDismissed(u)

SpecGate == InitGate /\ [][NextGate]_vars

----------------------------------------------------------------------------
(* The merge gate of a pull request that receives a second commit *)

NewSha == "sha2"

Shas == {HeadSha, NewSha}

\* both checks mustRun, every mustPass combination
HeadsRegistries ==
    {MkRegistry("github",
        <<MkCheck("pr-test", "pr-test", "/test", TRUE, p1, Unset),
          MkCheck("pr-review", "pr-review", "/review", TRUE, p2, Unset)>>) :
        p1 \in BOOLEAN, p2 \in BOOLEAN}

InitHeads ==
    /\ registry \in HeadsRegistries
    /\ pr = [number |-> PrNumber, headSha |-> HeadSha, baseRef |-> "main"]
    /\ statuses = <<>>
    /\ reviews = [u \in Users |-> "NONE"]
    /\ comments = <<>>
    /\ last = [op |-> "init"]
    /\ event = NoEvent
    /\ decision = NoDecision
    /\ jobs = NoJobs
    /\ runs = NoRuns
    /\ cli = NoCli
    /\ tested = NoTested

\* a commit is pushed to the branch of the pull request
NewCommit ==
    /\ pr.headSha = HeadSha
    /\ pr' = [pr EXCEPT !.headSha = NewSha]
    /\ last' = [op |-> "push"]
    /\ UNCHANGED <<registry, statuses, reviews, comments, triggerVars, jobs, toolVars>>

NextHeads == NextGate \/ NewCommit

SpecHeads == InitHeads /\ [][NextHeads]_vars

----------------------------------------------------------------------------
(* The merge gate of a repository generated without the approval workflow *)

PlainRegistries ==
    {[reg EXCEPT !.generateApprovalOverride = FALSE] : reg \in GateRegistries}

InitGatePlain ==
    /\ registry \in PlainRegistries
    /\ pr = [number |-> PrNumber, headSha |-> HeadSha, baseRef |-> "main"]
    /\ statuses = <<>>
    /\ reviews = [u \in Users |-> "NONE"]
    /\ comments = <<>>
    /\ last = [op |-> "init"]
    /\ event = NoEvent
    /\ decision = NoDecision
    /\ jobs = NoJobs
    /\ runs = NoRuns
    /\ cli = NoCli
    /\ tested = NoTested

SpecGatePlain == InitGatePlain /\ [][NextGate]_vars

----------------------------------------------------------------------------
(* The review-status job on a host whose status reads may fail *)

\* curl -sf prints nothing when the request fails and jq prints nothing for
\* an empty input; the step runs under `bash -e`, where the pipeline ends
\* with the exit code of jq, so the variable is set to the empty string
FailedRead == ""

\* the *_STATE variables when the reads of the contexts in `unread` fail
ReadStatesUnless(log, sha, unread) ==
    [n \in DOMAIN ReadStates(log, sha) |->
        IF n \in unread THEN FailedRead ELSE ReadState(log, sha, n)]

ReviewStatusJobFaulty ==
    \E unread \in SUBSET {c.name : c \in Range(RequiredChecks(registry))} :
        ReviewStatusRun(ReadStatesUnless(statuses, EventHead(pr), unread))

NextGateFaulty ==
    \/ \E i \in 1..Len(registry.checks), st \in {"pending", "success", "failure"} :
          CheckReport(i, st)
    \/ ReviewStatusJobFaulty

SpecGateFaulty == InitGate /\ [][NextGateFaulty]_vars

----------------------------------------------------------------------------
(* Trigger classification: check-trigger job *)

PullRequestActions == {"opened", "synchronize"}

getDefaultAutoRunOn(mustRun) == IF mustRun THEN {"synchronize"} ELSE {}

AutoRunOnDefault(c) == getDefaultAutoRunOn(c.mustRun)

\* c.autoRunOn ?? getDefaultAutoRunOn(c.mustRun)
AutoRunOn(c) == IF c.autoRunOn = Unset THEN getDefaultAutoRunOn(c.mustRun)
                ELSE c.autoRunOn[1]

\* allActions of generateCheckTriggerJob: the actions of the job's `if`
TriggerActions(reg) ==
    LET all == UNION {AutoRunOn(reg.checks[i]) : i \in 1..Len(reg.checks)}
    IN  IF all = {} THEN {"synchronize"} ELSE all

\* allActions of generatePrChecksWorkflow: on.pull_request.types
WorkflowTypes(reg) ==
    {"opened"} \cup UNION {AutoRunOn(reg.checks[i]) : i \in 1..Len(reg.checks)}

AllTriggers(reg) ==
    {reg.checks[i].trigger : i \in 1..Len(reg.checks)} \cup {reg.ciTrigger}

\* the characters of the words of the model
Chars(word) ==
    CASE word = "/test" -> <<"/", "t", "e", "s", "t">>
      [] word = "/tests" -> <<"/", "t", "e", "s", "t", "s">>
      [] word = "/te.t" -> <<"/", "t", "e", ".", "t">>
      [] word = "/lint" -> <<"/", "l", "i", "n", "t">>
      [] word = "/review" -> <<"/", "r", "e", "v", "i", "e", "w">>
      [] word = "/checks" -> <<"/", "c", "h", "e", "c", "k", "s">>
      [] word = "fix" -> <<"f", "i", "x">>
      [] OTHER -> <<>>

\* t.replace('/', '\\/'): the first slash escaped, every other character of
\* the trigger as it is; in the regular expression `\/` stands for a slash
TriggerPattern(trigger) == Chars(trigger)

\* word =~ ^(pattern)$ for a pattern without alternation: `.` stands for any
\* one character, every other character of the model's words for itself
RegexMatches(pattern, word) ==
    /\ Len(Chars(word)) = Len(pattern)
    /\ \A i \in 1..Len(pattern) : pattern[i] = "." \/ pattern[i] = Chars(word)[i]

\* [[ "$FIRST_WORD" =~ ^(t1|t2|...)$ ]]
MatchesTrigger(reg, word) ==
    \E t \in AllTriggers(reg) : RegexMatches(TriggerPattern(t), word)

PermissionAllowedRead(permission) ==
    permission \in {"owner", "admin", "maintain", "write", "read"}

\* [[ "$PERMISSION" =~ ^(owner|admin|maintain|write)$ ]]
PermissionAllowed(permission) ==
    permission \in {"owner", "admin", "maintain", "write"}

PermissionAssumeWrite(platform, answer) == IF answer = "" THEN "write" ELSE answer

PermissionFromHost(platform, answer) == answer

\* the permission the job works with: the host's answer on github ("" when
\* the lookup fails), the constant "write" on gitea
Permission(platform, answer) == IF platform = "github" THEN answer ELSE "write"

\* awk 'NF{print; exit}': index of the first line with a field, 0 if none
FirstLine(body) ==
    LET nonBlank == {i \in 1..Len(body) : body[i] # <<>>}
    IN  IF nonBlank = {} THEN 0
        ELSE CHOOSE i \in nonBlank : \A j \in nonBlank : i <= j

\* awk '{print $1}' on the first non-blank line
FirstWord(body) == IF FirstLine(body) = 0 THEN "" ELSE body[FirstLine(body)][1]

\* the rest of the trigger line, if any, and every following line
UserMessage(body) ==
    LET i == FirstLine(body)
        rest == Tail(body[i])
    IN  (IF rest = <<>> THEN <<>> ELSE <<rest>>) \o SubSeq(body, i + 1, Len(body))

IsOfficialNoLines(message) == message = <<>>

\* sed 's/^[[:space:]]*//;s/[[:space:]]*$//' | tr -d '\n' leaves nothing
IsOfficial(message) == \A i \in 1..Len(message) : message[i] = <<>>

Bool(b) == IF b THEN "true" ELSE "false"

Outputs(reg) ==
    [should_continue |-> "", pr_number |-> "", head_sha |-> "", trigger |-> "",
     user_message |-> <<>>, is_official |-> "",
     auto_run |-> [n \in {reg.checks[i].name : i \in 1..Len(reg.checks)} |-> ""]]

ClassifyPullRequestNoDraft(reg, ev) ==
    [Outputs(reg) EXCEPT
        !.pr_number = ev.number, !.head_sha = ev.headSha, !.is_official = "true",
        !.auto_run = [n \in DOMAIN @ |->
            LET c == CHOOSE c \in Range(reg.checks) : c.name = n
            IN  Bool(ev.action \in AutoRunOn(c))],
        !.should_continue = "true"]

\* the pull_request branch of the step
ClassifyPullRequest(reg, ev) ==
    IF ev.draft
    THEN [Outputs(reg) EXCEPT !.should_continue = "false"]
    ELSE [Outputs(reg) EXCEPT
            !.pr_number = ev.number, !.head_sha = ev.headSha,
            !.is_official = "true",
            !.auto_run = [n \in DOMAIN @ |->
                LET c == CHOOSE c \in Range(reg.checks) : c.name = n
                IN  Bool(ev.action \in AutoRunOn(c))],
            !.should_continue = "true"]

\* the issue_comment branch of the step
ClassifyComment(reg, ev) ==
    LET no == [Outputs(reg) EXCEPT !.should_continue = "false"]
        permission == Permission(reg.platform, ev.permission)
        message == UserMessage(ev.body)
        parsed == [no EXCEPT !.user_message = message,
                             !.is_official = Bool(IsOfficial(message))]
    IN  IF ~ev.isPr THEN no
        ELSE IF permission = "" THEN no
        ELSE IF ~PermissionAllowed(permission) THEN no
        ELSE IF ~MatchesTrigger(reg, FirstWord(ev.body)) THEN no
        ELSE IF ev.number = "" THEN parsed
        ELSE IF ev.http # "200" THEN parsed
        ELSE IF ev.headSha = "" THEN parsed
        ELSE [parsed EXCEPT !.pr_number = ev.number, !.head_sha = ev.headSha,
                            !.trigger = FirstWord(ev.body),
                            !.should_continue = "true"]

\* the `if` of the job
CheckTriggerIf(reg, ev) ==
    \/ ev.kind = "issue_comment"
    \/ ev.kind = "pull_request" /\ ev.action \in TriggerActions(reg)

ClassifyOnce(reg, ev) ==
    IF decision # NoDecision THEN [Outputs(reg) EXCEPT !.should_continue = "false"]
    ELSE IF ~CheckTriggerIf(reg, ev) THEN Outputs(reg)
    ELSE IF ev.kind = "pull_request" THEN ClassifyPullRequest(reg, ev)
    ELSE ClassifyComment(reg, ev)

\* the outputs of the job; none is set when the job is skipped
Classify(reg, ev) ==
    IF ~CheckTriggerIf(reg, ev) THEN Outputs(reg)
    ELSE IF ev.kind = "pull_request" THEN ClassifyPullRequest(reg, ev)
    ELSE ClassifyComment(reg, ev)

CheckTriggerJob(ev) ==
    /\ ev.kind = "pull_request" => ev.action \in WorkflowTypes(registry)
    /\ event' = ev
    /\ decision' = Classify(registry, ev)
    /\ UNCHANGED <<registry, gateVars, jobs, toolVars>>

----------------------------------------------------------------------------
(* Inbound events of the trigger specification *)

Tokens == {"/test", "/tests", "fix"}

SeqsUpTo(S, n) == UNION {[1..k -> S] : k \in 0..n}

Bodies == SeqsUpTo(SeqsUpTo(Tokens, MaxTokens), MaxLines)

\* answers of GET .../collaborators/$USER/permission; "" when the call fails
PermissionAnswers == {"owner", "admin", "maintain", "write", "read", "none", ""}

\* answers of GET .../pulls/$PR_NUMBER: HTTP code and .head.sha
PullAnswers == {<<"200", HeadSha>>, <<"200", "">>, <<"404", "">>}

PullRequestEvents ==
    [kind : {"pull_request"}, action : PullRequestActions, draft : BOOLEAN,
     number : {PrNumber}, headSha : {HeadSha}]

CommentEvents ==
    {[kind |-> "issue_comment", isPr |-> isPr, body |-> body,
      permission |-> perm, number |-> PrNumber, http |-> pull[1],
      headSha |-> pull[2]] :
        isPr \in BOOLEAN, body \in Bodies, perm \in PermissionAnswers,
        pull \in PullAnswers}

InitTrigger ==
    /\ registry \in TriggerRegistries
    /\ pr = [number |-> PrNumber, headSha |-> HeadSha, baseRef |-> "main"]
    /\ statuses = <<>>
    /\ reviews = [u \in Users |-> "NONE"]
    /\ comments = <<>>
    /\ last = [op |-> "init"]
    /\ event = NoEvent
    /\ decision = NoDecision
    /\ jobs = NoJobs
    /\ runs = NoRuns
    /\ cli = NoCli
    /\ tested = NoTested

\* one run of the workflow: the runs of different events share no state
OnPullRequest == event = NoEvent /\ \E ev \in PullRequestEvents : CheckTriggerJob(ev)

OnIssueComment == event = NoEvent /\ \E ev \in CommentEvents : CheckTriggerJob(ev)

NextTrigger == OnPullRequest \/ OnIssueComment

SpecTrigger == InitTrigger /\ [][NextTrigger]_vars

\* the workflow is run again for the same event (re-run of the job): the
\* payload is the same and the host gives the same answers
Reclassify ==
    /\ event # NoEvent
    /\ last.op = "init"
    /\ decision' = Classify(registry, event)
    /\ last' = [op |-> "reclassify", previous |-> decision]
    /\ UNCHANGED <<registry, pr, statuses, reviews, comments, event, jobs, toolVars>>

NextReclassify == OnIssueComment \/ Reclassify

SpecReclassify == InitTrigger /\ [][NextReclassify]_vars

----------------------------------------------------------------------------
(* One run of the pr-checks workflow: the jobs of the checks *)

isPrTestCheck(c) == c.type = "pr-test"

isPrReviewCheck(c) == c.type = "pr-review"

\* requiredPrTests of generatePrChecksWorkflow
RequiredPrTests(reg) == SelectSeq(reg.checks, LAMBDA c : isPrTestCheck(c) /\ c.mustRun)

RunConditionsAnyCheck(reg, c, d) ==
    \/ d.trigger = c.trigger
    \/ d.trigger = reg.ciTrigger
    \/ d.auto_run[c.name] = "true"

\* runConditions joined by ||: own trigger, ciTrigger when mustRun, auto run
RunConditions(reg, c, d) ==
    \/ d.trigger = c.trigger
    \/ c.mustRun /\ d.trigger = reg.ciTrigger
    \/ d.auto_run[c.name] = "true"

PrTestSuccessConditionNone(reg, c, d, js) == TRUE

PrTestSuccessConditionStrict(reg, c, d, js) ==
    \A t \in Range(RequiredPrTests(reg)) : js[t.name] = "success"

PrTestSuccessConditionAnyTrigger(reg, c, d, js) ==
    IF c.mustRun /\ RequiredPrTests(reg) # <<>>
    THEN \A t \in Range(RequiredPrTests(reg)) : js[t.name] = "success"
    ELSE TRUE

\* prTestSuccessCondition: empty unless the check is mustRun and there are
\* required tests
PrTestSuccessCondition(reg, c, d, js) ==
    IF c.mustRun /\ RequiredPrTests(reg) # <<>>
    THEN \/ d.trigger # reg.ciTrigger
         \/ \A t \in Range(RequiredPrTests(reg)) : js[t.name] = "success"
    ELSE TRUE

\* the `if` of a pr-test job
PrTestJobIf(reg, c, d) ==
    /\ d.should_continue = "true"
    /\ RunConditions(reg, c, d)

\* the `if` of a pr-review job
PrReviewJobIf(reg, c, d, js) ==
    /\ d.should_continue = "true"
    /\ PrTestSuccessCondition(reg, c, d, js)
    /\ RunConditions(reg, c, d)

\* `needs` of a check's job, check-trigger left out: it has finished when the
\* outputs are there
Needs(reg, c) ==
    IF isPrReviewCheck(c)
    THEN {RequiredPrTests(reg)[i].name : i \in 1..Len(RequiredPrTests(reg))}
    ELSE {}

\* result of a job that has finished or was skipped
Completed(result) == result \in {"success", "failure", "skipped"}

\* the workflow is started for an event: check-trigger sets the outputs, the
\* jobs of the checks wait for the jobs they need
StartRun(ev) ==
    /\ ev.kind = "pull_request" => ev.action \in WorkflowTypes(registry)
    /\ event' = ev
    /\ decision' = Classify(registry, ev)
    /\ jobs' = [n \in {registry.checks[i].name : i \in 1..Len(registry.checks)} |-> "queued"]
    /\ tested' = [n \in {registry.checks[i].name : i \in 1..Len(registry.checks)} |-> ""]
    /\ UNCHANGED <<registry, pr, statuses, reviews, comments, last, runs, cli>>

\* "Get PR branch" and actions/checkout of the branch, or the fetch of
\* pull/N/head: the job works on the commit the branch points to when it starts
Checkout(pull) == pull.headSha

\* the host evaluates the `if` of a job once the jobs it needs are completed;
\* a pr-review job of an official run then sets the pending status
JobStart(i) ==
    LET c == registry.checks[i]
        run == IF isPrReviewCheck(c)
               THEN PrReviewJobIf(registry, c, decision, jobs)
               ELSE PrTestJobIf(registry, c, decision)
    IN  /\ event # NoEvent
        /\ jobs[c.name] = "queued"
        /\ \A n \in Needs(registry, c) : Completed(jobs[n])
        /\ jobs' = [jobs EXCEPT ![c.name] = IF run THEN "running" ELSE "skipped"]
        /\ statuses' = IF run /\ isPrReviewCheck(c) /\ decision.is_official = "true"
                       THEN PostStatus(statuses, decision.head_sha, c.name,
                                       "pending", MSG_inProgress)
                       ELSE statuses
        /\ tested' = IF run THEN [tested EXCEPT ![c.name] = Checkout(pr)] ELSE tested
        /\ UNCHANGED <<registry, pr, reviews, comments, last, triggerVars, runs, cli>>

\* the check has run: the report script of a pr-test job sets the status, the
\* step "Set final status" of a pr-review job sets it in an official run
JobEnd(i, state) ==
    LET c == registry.checks[i]
    IN  /\ event # NoEvent
        /\ jobs[c.name] = "running"
        /\ jobs' = [jobs EXCEPT ![c.name] = state]
        /\ statuses' = IF isPrTestCheck(c) \/ decision.is_official = "true"
                       THEN PostStatus(statuses, decision.head_sha, c.name,
                                       state, StatusDescription(state))
                       ELSE statuses
        /\ UNCHANGED <<registry, pr, reviews, comments, last, triggerVars, toolVars>>

\* registries of the run specification: two test checks and a review check
RunRegistries ==
    {MkRegistry("github",
        <<MkCheck("pr-test", "pr-test", "/test", r1, TRUE, Unset),
          MkCheck("lint", "pr-test", "/lint", r2, FALSE, a2),
          MkCheck("pr-review", "pr-review", "/review", r3, FALSE, Unset)>>) :
        r1 \in BOOLEAN, r2 \in BOOLEAN, r3 \in BOOLEAN,
        a2 \in {Unset, <<{"opened"}>>}}

\* comments of a user with write permission on the pull request: a word,
\* alone or followed by text
RunComments ==
    {[kind |-> "issue_comment", isPr |-> TRUE, body |-> << <<word>> \o rest >>,
      permission |-> "write", number |-> PrNumber, http |-> "200",
      headSha |-> HeadSha] :
        word \in {"/test", "/lint", "/review", "/checks", "fix"},
        rest \in {<<>>, <<"fix">>}}

\* statuses left on the head commit by earlier runs
EarlierStatuses ==
    {<<>>} \cup {PostStatus(<<>>, HeadSha, "pr-test", st, StatusDescription(st)) :
                    st \in {"success", "failure"}}

InitRun ==
    /\ registry \in RunRegistries
    /\ pr = [number |-> PrNumber, headSha |-> HeadSha, baseRef |-> "main"]
    /\ statuses \in EarlierStatuses
    /\ reviews = [u \in Users |-> "NONE"]
    /\ comments = <<>>
    /\ last = [op |-> "init"]
    /\ event = NoEvent
    /\ decision = NoDecision
    /\ jobs = NoJobs
    /\ runs = NoRuns
    /\ cli = NoCli
    /\ tested = NoTested

RunOnPullRequest == event = NoEvent /\ \E ev \in PullRequestEvents : StartRun(ev)

RunOnIssueComment == event = NoEvent /\ \E ev \in RunComments : StartRun(ev)

NextRun ==
    \/ RunOnPullRequest
    \/ RunOnIssueComment
    \/ \E i \in 1..Len(registry.checks) : JobStart(i)
    \/ \E i \in 1..Len(registry.checks), st \in {"success", "failure"} : JobEnd(i, st)

SpecRun == InitRun /\ [][NextRun]_vars

----------------------------------------------------------------------------
(* One run of pr-checks.yml with all its jobs, on a pull request that may
   receive a second commit *)

CheckJobs(reg) == {reg.checks[i].name : i \in 1..Len(reg.checks)}

\* the jobs of the workflow besides check-trigger and the jobs of the checks
FlowJobs == {"guide-comment", "review-status"}

\* the `if` of guide-comment
GuideCommentIf(ev) == ev.kind = "pull_request" /\ ev.action = "opened"

ReviewStatusIfAlways(d) == TRUE

\* the `if` of review-status: always() && should_continue == 'true'
ReviewStatusIf(d) == d.should_continue = "true"

\* dependencies of review-status, check-trigger left out
ReviewStatusNeeds(reg) == CheckJobs(reg)

\* the workflow is started: check-trigger sets the outputs; guide-comment
\* needs no job, the host evaluates its `if` at once
StartFlow(ev) ==
    /\ event = NoEvent
    /\ ev.kind = "pull_request" => ev.action \in WorkflowTypes(registry)
    /\ event' = ev
    /\ decision' = Classify(registry, ev)
    /\ jobs' = [n \in CheckJobs(registry) \cup FlowJobs |->
                    IF n = "guide-comment" /\ ~GuideCommentIf(ev) THEN "skipped"
                    ELSE "queued"]
    /\ tested' = [n \in CheckJobs(registry) |-> ""]
    /\ UNCHANGED <<registry, pr, statuses, reviews, comments, last, runs, cli>>

\* step "Post guide comment": the comment, then the pending gate status
GuideCommentRun ==
    /\ event # NoEvent
    /\ jobs["guide-comment"] = "queued"
    /\ jobs' = [jobs EXCEPT !["guide-comment"] = "success"]
    /\ comments' = Append(comments, [kind |-> "guide", user |-> ""])
    /\ statuses' = PostStatus(statuses, event.headSha, PR_CHECKS_STATUS,
                              "pending", MSG_waiting)
    /\ UNCHANGED <<registry, pr, reviews, last, triggerVars, toolVars>>

\* the host evaluates the `if` of review-status once every job it needs is
\* completed; the job computes the gate for head_sha of check-trigger
ReviewStatusFlow ==
    /\ event # NoEvent
    /\ jobs["review-status"] = "queued"
    /\ \A n \in ReviewStatusNeeds(registry) : Completed(jobs[n])
    /\ IF ReviewStatusIf(decision)
       THEN LET sha == decision.head_sha
                steps == ReviewStatusSteps(statuses, sha, ReadStates(statuses, sha),
                                           reviews)
            IN  /\ statuses' = steps.log
                /\ jobs' = [jobs EXCEPT !["review-status"] = "success"]
                /\ last' = [op |-> "review-status", failed |-> steps.failed,
                            reason |-> steps.reason, approved |-> steps.approved,
                            unread |-> {}]
       ELSE /\ jobs' = [jobs EXCEPT !["review-status"] = "skipped"]
            /\ UNCHANGED <<statuses, last>>
    /\ UNCHANGED <<registry, pr, reviews, comments, triggerVars, toolVars>>

\* a test check and a review check, each with autoRunOn given
FlowRegistries ==
    {MkRegistry("github",
        <<MkCheck("pr-test", "pr-test", "/test", r1, TRUE, <<{"opened", "synchronize"}>>),
          MkCheck("pr-review", "pr-review", "/review", r2, FALSE, a2)>>) :
        r1 \in BOOLEAN, r2 \in BOOLEAN,
        a2 \in {<<{}>>, <<{"opened", "synchronize"}>>}}

\* comments on the pull request whose head is sha: a word of a user with
\* write permission, and the collective trigger as a comment on an issue, of
\* a user with read permission, and with a failing pull request lookup
FlowComments(sha) ==
    {[kind |-> "issue_comment", isPr |-> TRUE, body |-> << <<word>> >>,
      permission |-> "write", number |-> PrNumber, http |-> "200",
      headSha |-> sha] : word \in {"/test", "/review", "/checks", "fix"}}
    \cup
    {[kind |-> "issue_comment", isPr |-> v[1], body |-> << <<"/checks">> >>,
      permission |-> v[2], number |-> PrNumber, http |-> v[3],
      headSha |-> IF v[3] = "200" THEN sha ELSE ""] :
        v \in {<<FALSE, "write", "200">>, <<TRUE, "read", "200">>,
               <<TRUE, "write", "404">>}}

FlowPullRequests(sha) ==
    [kind : {"pull_request"}, action : PullRequestActions, draft : BOOLEAN,
     number : {PrNumber}, headSha : {sha}]

InitFlow ==
    /\ registry \in FlowRegistries
    /\ pr = [number |-> PrNumber, headSha |-> HeadSha, baseRef |-> "main"]
    /\ statuses = <<>>
    /\ reviews = [u \in Users |-> "NONE"]
    /\ comments = <<>>
    /\ last = [op |-> "init"]
    /\ event = NoEvent
    /\ decision = NoDecision
    /\ jobs = NoJobs
    /\ runs = NoRuns
    /\ cli = NoCli
    /\ tested = NoTested

FlowOnPullRequest == \E ev \in FlowPullRequests(pr.headSha) : StartFlow(ev)

FlowOnIssueComment == \E ev \in FlowComments(pr.headSha) : StartFlow(ev)

NextFlow ==
    \/ FlowOnPullRequest
    \/ FlowOnIssueComment
    \/ \E i \in 1..Len(registry.checks) : JobStart(i)
    \/ \E i \in 1..Len(registry.checks), st \in {"success", "failure"} : JobEnd(i, st)
    \/ GuideCommentRun
    \/ ReviewStatusFlow
    \/ NewCommit

SpecFlow == InitFlow /\ [][NextFlow]_vars

----------------------------------------------------------------------------
(* Workflow runs and the concurrency groups of the generated workflows *)

Workflows == {"pr-checks", "approval-override"}

PrNumbers == {"7", "8"}

\* a workflow without a `concurrency` entry belongs to no group
NoGroup == <<>>

\* pr-checks.yml: group pr-checks-${{ pull_request.number || issue.number || ref }};
\* approval-override.yml has no `concurrency` entry
ConcurrencyGroup(workflow, prNumber) ==
    IF workflow = "pr-checks" THEN <<"pr-checks-", prNumber>> ELSE NoGroup

\* cancel-in-progress of the group
CancelInProgress(workflow) == FALSE

GroupOf(run) == ConcurrencyGroup(run.workflow, run.pr)

\* an event of pull request `prNumber` queues a run of `workflow`
QueueRun(workflow, prNumber) ==
    /\ Len(runs) < MaxRuns
    /\ LET group == ConcurrencyGroup(workflow, prNumber)
           before == [i \in 1..Len(runs) |->
                        IF /\ CancelInProgress(workflow)
                           /\ group # NoGroup /\ GroupOf(runs[i]) = group
                           /\ runs[i].status = "in_progress"
                        THEN [runs[i] EXCEPT !.status = "cancelled"]
                        ELSE runs[i]]
       IN  runs' = Append(before, [workflow |-> workflow, pr |-> prNumber,
                                   status |-> "pending"])
    /\ UNCHANGED <<registry, gateVars, triggerVars, jobs, cli, tested>>

\* the host starts a pending run when no run of its group is in progress
BeginRun(i) ==
    /\ runs[i].status = "pending"
    /\ GroupOf(runs[i]) # NoGroup =>
          \A j \in 1..Len(runs) :
              GroupOf(runs[j]) = GroupOf(runs[i]) => runs[j].status # "in_progress"
    /\ runs' = [runs EXCEPT ![i].status = "in_progress"]
    /\ UNCHANGED <<registry, gateVars, triggerVars, jobs, cli, tested>>

CompleteRun(i) ==
    /\ runs[i].status = "in_progress"
    /\ runs' = [runs EXCEPT ![i].status = "completed"]
    /\ UNCHANGED <<registry, gateVars, triggerVars, jobs, cli, tested>>

InitConcurrency ==
    /\ registry \in GateRegistries
    /\ pr = [number |-> PrNumber, headSha |-> HeadSha, baseRef |-> "main"]
    /\ statuses = <<>>
    /\ reviews = [u \in Users |-> "NONE"]
    /\ comments = <<>>
    /\ last = [op |-> "init"]
    /\ event = NoEvent
    /\ decision = NoDecision
    /\ jobs = NoJobs
    /\ runs = NoRuns
    /\ cli = NoCli
    /\ tested = NoTested

NextConcurrency ==
    \/ \E w \in Workflows, n \in PrNumbers : QueueRun(w, n)
    \/ \E i \in 1..Len(runs) : BeginRun(i)
    \/ \E i \in 1..Len(runs) : CompleteRun(i)

SpecConcurrency == InitConcurrency /\ [][NextConcurrency]_vars

----------------------------------------------------------------------------
(* The generator: reading .pr-checks/config.yml and writing the files *)

\* a string of the configuration file is a sequence of pieces: words and blanks
Blank == " "

RECURSIVE TrimStart(_)
TrimStart(s) ==
    IF s # <<>> /\ Head(s) = Blank THEN TrimStart(Tail(s)) ELSE s

RECURSIVE TrimEnd(_)
TrimEnd(s) ==
    IF s # <<>> /\ s[Len(s)] = Blank THEN TrimEnd(SubSeq(s, 1, Len(s) - 1)) ELSE s

\* String.prototype.trim
Trim(s) == TrimEnd(TrimStart(s))

\* s.startsWith('/')
StartsWithSlash(s) == s # <<>> /\ Head(s) \in {"/test", "/lint", "/review", "/checks"}

\* /^[a-z][a-z0-9_-]*$/.test(s)
NamePattern(s) == Len(s) = 1 /\ s[1] \in {"pr-test", "pr-lint", "pr-review"}

ConfigError == [ok |-> FALSE, error |-> "ConfigError"]

Accepted(value) == [ok |-> TRUE, value |-> value]

DEFAULT_INPUT_CONFIG ==
    [platform |-> "github",
     checks |-> <<[name |-> <<"pr-test">>, trigger |-> <<"/test">>, type |-> "pr-test"],
                  [name |-> <<"pr-review">>, trigger |-> <<"/review">>, type |-> "pr-review"]>>,
     ciTrigger |-> <<"/checks">>,
     generateApprovalOverride |-> TRUE,
     branches |-> <<"main", "master">>]

\* a raw check carries a type and a command; name and trigger are required
\* and trimmed, the pattern is tested on the trimmed name
parseCheck(raw) ==
    IF Trim(raw.name) = <<>> \/ ~NamePattern(Trim(raw.name)) THEN ConfigError
    ELSE IF Trim(raw.trigger) = <<>> THEN ConfigError
    ELSE Accepted([name |-> Trim(raw.name), trigger |-> Trim(raw.trigger),
                   type |-> raw.type])

\* a key of the parsed file is undefined (<<>>) or holds one value (<<v>>)
parseString(value, defaultValue) == IF value = <<>> THEN defaultValue ELSE value[1]

parseBoolean(value, defaultValue) == IF value = <<>> THEN defaultValue ELSE value[1]

mergeWithDefaults(parsed) ==
    LET defaults == DEFAULT_INPUT_CONFIG
        given == parsed.checks # <<>> /\ Len(parsed.checks[1]) > 0
        results == IF given THEN [i \in DOMAIN parsed.checks[1] |-> parseCheck(parsed.checks[1][i])]
                   ELSE <<>>
    IN  IF \E i \in DOMAIN results : ~results[i].ok THEN ConfigError
        ELSE Accepted(
            [platform |-> defaults.platform,
             checks |-> IF given THEN [i \in DOMAIN results |-> results[i].value]
                        ELSE defaults.checks,
             ciTrigger |-> parseString(parsed.ciTrigger, defaults.ciTrigger),
             generateApprovalOverride |->
                 parseBoolean(parsed.generateApprovalOverride, defaults.generateApprovalOverride),
             branches |-> IF parsed.branches # <<>> THEN parsed.branches[1]
                          ELSE defaults.branches])

\* TRUE when validateConfig throws
validateConfig(config) ==
    \/ Len(config.checks) = 0
    \/ \E i, j \in DOMAIN config.checks : i < j /\ config.checks[i].name = config.checks[j].name
    \/ \E i, j \in DOMAIN config.checks : i < j /\ config.checks[i].trigger = config.checks[j].trigger
    \/ \E i \in DOMAIN config.checks : config.checks[i].trigger = config.ciTrigger
    \/ \E i \in DOMAIN config.checks : ~StartsWithSlash(config.checks[i].trigger)
    \/ ~StartsWithSlash(config.ciTrigger)
    \/ Len(config.branches) = 0

readConfigUnvalidated(file) ==
    IF file # <<>>
    THEN mergeWithDefaults(file[1])
    ELSE Accepted(DEFAULT_INPUT_CONFIG)

\* file is <<>> when config.yml does not exist, <<parsed>> otherwise
readConfig(file) ==
    IF file # <<>>
    THEN LET input == mergeWithDefaults(file[1])
         IN  IF ~input.ok THEN ConfigError
             ELSE IF validateConfig(input.value) THEN ConfigError
             ELSE input
    ELSE Accepted(DEFAULT_INPUT_CONFIG)

WorkflowFile(name, config) == [dir |-> "workflows", file |-> <<name>>, from |-> <<config>>]

ScriptFile(check, suffix, config) ==
    [dir |-> "scripts", file |-> check.name \o <<suffix>>, from |-> <<config>>]

generateWorkflows(config) ==
    {WorkflowFile("pr-checks.yml", config)}
    \cup (IF config.generateApprovalOverride
          THEN {WorkflowFile("pr-checks-approval.yml", config)} ELSE {})

generateScriptFiles(config) ==
    UNION {{ScriptFile(config.checks[i], "-report.sh", config),
            ScriptFile(config.checks[i], "-collapse.sh", config)} :
           i \in {j \in DOMAIN config.checks : config.checks[j].type = "pr-test"}}

\* the files on disk after generateWorkflowFiles: writeFile replaces a file
\* of the same path and leaves every other file alone
generateWorkflowFiles(files, config) ==
    LET written == generateWorkflows(config) \cup generateScriptFiles(config)
    IN  {f \in files : \A g \in written : <<g.dir, g.file>> # <<f.dir, f.file>>}
        \cup written

RawNames == {<<"pr-test">>, <<"pr-test", Blank>>, <<"pr-lint">>}

RawTriggers == {<<"/test">>, <<"/test", Blank>>, <<"/lint">>}

RawChecks == [name : RawNames, trigger : RawTriggers, type : {"pr-test"}]

RawCheckLists == UNION {[1..n -> RawChecks] : n \in 0..MaxChecks}

RawConfigs ==
    [checks : {<<>>} \cup {<<cs>> : cs \in RawCheckLists},
     ciTrigger : {<<>>, << <<"/checks">> >>, << <<"/test">> >>, << <<"/test", Blank>> >>},
     generateApprovalOverride : {<<>>, <<FALSE>>},
     branches : {<<>>, << <<>> >>, << <<"main">> >>}]

\* yaml.stringify followed by yaml.parse
Stringify(config) ==
    [checks |-> <<config.checks>>, ciTrigger |-> <<config.ciTrigger>>,
     generateApprovalOverride |-> <<config.generateApprovalOverride>>,
     branches |-> <<config.branches>>]

\* config.yml is written only when it does not exist
createDefaultFiles(file) ==
    IF file = <<>> THEN <<Stringify(DEFAULT_INPUT_CONFIG)>> ELSE file

\* files left by an earlier run of the generator
OldFiles ==
    {[dir |-> "workflows", file |-> <<"pr-checks.yml">>, from |-> <<>>],
     [dir |-> "workflows", file |-> <<"pr-checks-approval.yml">>, from |-> <<>>]}

InitCli ==
    /\ registry = MkRegistry("github",
                      <<MkCheck("pr-test", "pr-test", "/test", TRUE, TRUE, Unset),
                        MkCheck("pr-review", "pr-review", "/review", TRUE, FALSE, Unset)>>)
    /\ pr = [number |-> PrNumber, headSha |-> HeadSha, baseRef |-> "main"]
    /\ statuses = <<>>
    /\ reviews = [u \in Users |-> "NONE"]
    /\ comments = <<>>
    /\ last = [op |-> "init"]
    /\ event = NoEvent
    /\ decision = NoDecision
    /\ jobs = NoJobs
    /\ runs = NoRuns
    /\ cli \in [op : {"start"}, yes : BOOLEAN,
                file : {<<>>} \cup {<<p>> : p \in RawConfigs},
                config : {ConfigError}, files : {{}, OldFiles}]
    /\ tested = NoTested

\* the user lets run() create the default configuration file: runInit
CreateDefaults ==
    /\ cli.op = "start"
    /\ cli.file = <<>>
    /\ ~cli.yes
    /\ cli' = [cli EXCEPT !.op = "init", !.file = createDefaultFiles(cli.file)]
    /\ UNCHANGED <<registry, gateVars, triggerVars, jobs, runs, tested>>

ReadConfig ==
    /\ cli.op = "start"
    /\ LET config == readConfig(cli.file)
       IN  cli' = [cli EXCEPT !.op = IF config.ok THEN "read" ELSE "rejected",
                              !.config = config]
    /\ UNCHANGED <<registry, gateVars, triggerVars, jobs, runs, tested>>

\* the user declines the prompt
Cancel ==
    /\ cli.op = "read"
    /\ ~cli.yes
    /\ cli' = [cli EXCEPT !.op = "cancelled"]
    /\ UNCHANGED <<registry, gateVars, triggerVars, jobs, runs, tested>>

\* run() reaches generateWorkflowFiles only when readConfig has returned
Generate ==
    /\ cli.op = "read"
    /\ cli' = [cli EXCEPT !.op = "generated",
                          !.files = generateWorkflowFiles(cli.files, cli.config.value)]
    /\ UNCHANGED <<registry, gateVars, triggerVars, jobs, runs, tested>>

NextCli == CreateDefaults \/ ReadConfig \/ Cancel \/ Generate

SpecCli == InitCli /\ [][NextCli]_vars

----------------------------------------------------------------------------
(* Collapsing the old comments of a check (SpecCollapse) *)

\* the comments of the pull request kept by the model
MaxComments == 2

\* the characters of the texts of the comment metadata, of the names of the
\* checks and of the commits
Text(s) ==
    CASE s = "<!-- pr-checks:" ->
           <<"<", "!", "-", "-", " ", "p", "r", "-", "c", "h", "e", "c", "k",
             "s", ":">>
      [] s = " -->" ->
           <<" ", "-", "-", ">">>
      [] s = "{\"type\":\"" ->
           <<"{", "\"", "t", "y", "p", "e", "\"", ":", "\"">>
      [] s = "\",\"check\":\"" ->
           <<"\"", ",", "\"", "c", "h", "e", "c", "k", "\"", ":", "\"">>
      [] s = "\",\"sha\":\"" ->
           <<"\"", ",", "\"", "s", "h", "a", "\"", ":", "\"">>
      [] s = "\",\"collapsed\":false}" ->
           <<"\"", ",", "\"", "c", "o", "l", "l", "a", "p", "s", "e", "d", "\"",
             ":", "f", "a", "l", "s", "e", "}">>
      [] s = "check" ->
           <<"c", "h", "e", "c", "k">>
      [] s = "collapsed.:false" ->
           <<"c", "o", "l", "l", "a", "p", "s", "e", "d", ".", ":", "f", "a",
             "l", "s", "e">>
      [] s = "-->" ->
           <<"-", "-", ">">>
      [] s = "\"sha\":\"" ->
           <<"\"", "s", "h", "a", "\"", ":", "\"">>
      [] s = "\"collapsed\":false" ->
           <<"\"", "c", "o", "l", "l", "a", "p", "s", "e", "d", "\"", ":", "f",
             "a", "l", "s", "e">>
      [] s = "\"collapsed\":true" ->
           <<"\"", "c", "o", "l", "l", "a", "p", "s", "e", "d", "\"", ":", "t",
             "r", "u", "e">>
      [] s = "pr-test" ->
           <<"p", "r", "-", "t", "e", "s", "t">>
      [] s = "test" ->
           <<"t", "e", "s", "t">>
      [] s = "pr-review" ->
           <<"p", "r", "-", "r", "e", "v", "i", "e", "w">>
      [] s = "sha1" ->
           <<"s", "h", "a", "1">>
      [] s = "sha2" ->
           <<"s", "h", "a", "2">>
      [] OTHER -> <<>>

METADATA_PREFIX == Text("<!-- pr-checks:")

METADATA_SUFFIX == Text(" -->")

\* METADATA: JSON.stringify of {type, check, sha, collapsed: false} between
\* the prefix and the suffix, the first line of a report or review comment
Metadata(type, check, sha) ==
    METADATA_PREFIX \o Text("{\"type\":\"") \o Text(type)
        \o Text("\",\"check\":\"") \o Text(check)
        \o Text("\",\"sha\":\"") \o Text(sha)
        \o Text("\",\"collapsed\":false}") \o METADATA_SUFFIX

\* the comment a check posts for a commit: the metadata line, then the title
\* and the content, one element for each
ReportComment(c, sha) ==
    [line |-> Metadata(c.type, c.name, sha), rest |-> <<"title", "content">>]

\* ^<!-- pr-checks:.*check.*${checkName}.*collapsed.:false.*-->, the pieces
\* between the `.*` in their order; the first piece is held at the start
collapsiblePattern(checkName) ==
    <<METADATA_PREFIX, Text("check"), Text(checkName), Text("collapsed.:false"),
      Text("-->")>>

\* the piece matches the line at place i: `.` stands for any one character
MatchAt(piece, line, i) ==
    /\ i + Len(piece) - 1 <= Len(line)
    /\ \A k \in 1..Len(piece) : piece[k] = "." \/ piece[k] = line[i + k - 1]

\* the leftmost place at or after i where the piece matches the line, 0 if
\* there is none
RECURSIVE Find(_, _, _)
Find(piece, line, i) ==
    IF i + Len(piece) - 1 > Len(line) THEN 0
    ELSE IF MatchAt(piece, line, i) THEN i
    ELSE Find(piece, line, i + 1)

RECURSIVE TestFrom(_, _, _, _)
TestFrom(pieces, k, line, i) ==
    IF k > Len(pieces) THEN TRUE
    ELSE LET j == Find(pieces[k], line, i)
         IN  j # 0 /\ TestFrom(pieces, k + 1, line, j + Len(pieces[k]))

\* jq: select(.body | test(pattern)); `.` does not pass a line break, so the
\* pattern is matched by the first line of the body
Test(pieces, body) ==
    /\ MatchAt(pieces[1], body.line, 1)
    /\ TestFrom(pieces, 2, body.line, Len(pieces[1]) + 1)

\* grep -o '"sha":"[^"]*"' | head -1 | sed 's/"sha":"\([^"]*\)"/\1/'
CommentSha(body) ==
    LET key == Text("\"sha\":\"")
        j == Find(key, body.line, 1)
        from == j + Len(key)
        ends == {k \in from..Len(body.line) : body.line[k] = "\""}
    IN  IF j = 0 \/ ends = {} THEN <<>>
        ELSE SubSeq(body.line, from, (CHOOSE k \in ends : \A h \in ends : k <= h) - 1)

\* sed 's/"collapsed":false/"collapsed":true/' on the first line
MarkCollapsed(line) ==
    LET from == Text("\"collapsed\":false")
        j == Find(from, line, 1)
    IN  IF j = 0 THEN line
        ELSE SubSeq(line, 1, j - 1) \o Text("\"collapsed\":true")
                 \o SubSeq(line, j + Len(from), Len(line))

\* the new body of a collapsed comment. A test check's script keeps the title
\* and wraps the content in <details>; a review check's step turns every
\* <details open> into <details>
NewBody(type, body) ==
    [line |-> MarkCollapsed(body.line),
     rest |-> IF type = "pr-test"
              THEN <<Head(body.rest), "", "<details>", "<summary>">>
                       \o Tail(body.rest) \o <<"</details>">>
              ELSE [k \in 1..Len(body.rest) |->
                       IF body.rest[k] = "<details open>" THEN "<details>"
                       ELSE body.rest[k]]]

\* the comments the step of a check goes through: those the pattern selects
\* whose sha is not the head of the run
Collapsible(c, head, thread) ==
    {k \in 1..Len(thread) :
        /\ Test(collapsiblePattern(c.name), thread[k])
        /\ CommentSha(thread[k]) # Text(head)}

\* the comments whose PATCH is sent and answered: with `set +e` the script
\* of a test check goes on after a request that failed, the step of a review
\* check runs under `bash -e` and ends in its loop at the first one
Patched(c, todo, down) ==
    IF c.type = "pr-test" THEN todo \ down
    ELSE {k \in todo : \A d \in down : k < d}

\* the comments of the pull request after the collapse step of check c went
\* through the comments in todo, the requests for the comments in down failing
CollapseComments(c, thread, todo, down) ==
    LET done == Patched(c, todo, down)
    IN  [k \in 1..Len(thread) |->
            IF k \in done THEN NewBody(c.type, thread[k]) ELSE thread[k]]

\* checks whose name is a part of another's name, a test and a review check
CollapseRegistry ==
    MkRegistry("github",
        <<MkCheck("pr-test", "pr-test", "/test", TRUE, TRUE, <<{}>>),
          MkCheck("test", "pr-test", "/tests", TRUE, TRUE, <<{}>>),
          MkCheck("pr-review", "pr-review", "/review", TRUE, FALSE, <<{}>>)>>)

InitCollapse ==
    /\ registry = CollapseRegistry
    /\ pr = [number |-> PrNumber, headSha |-> HeadSha, baseRef |-> "main"]
    /\ statuses = <<>>
    /\ reviews = [u \in Users |-> "NONE"]
    /\ comments = <<>>
    /\ last = [op |-> "init"]
    /\ event = NoEvent
    /\ decision = NoDecision
    /\ jobs = NoJobs
    /\ runs = NoRuns
    /\ cli = NoCli
    /\ tested = NoTested

\* "Report results" of a test check, "Post PR comment" of a review check
PostComment(i, sha) ==
    /\ Len(comments) < MaxComments
    /\ comments' = Append(comments, ReportComment(registry.checks[i], sha))
    /\ last' = [op |-> "comment"]
    /\ UNCHANGED <<registry, pr, statuses, reviews, triggerVars, jobs, toolVars>>

\* "Collapse old comments" / "Collapse old review comments"
CollapseStep(i, head) ==
    LET c == registry.checks[i]
        todo == Collapsible(c, head, comments)
    IN  /\ \E down \in SUBSET todo :
               comments' = CollapseComments(c, comments, todo, down)
        /\ last' = [op |-> "collapse", check |-> i, head |-> head]
        /\ UNCHANGED <<registry, pr, statuses, reviews, triggerVars, jobs,
                       toolVars>>

NextCollapse ==
    \/ \E i \in 1..Len(registry.checks), sha \in Shas : PostComment(i, sha)
    \/ \E i \in 1..Len(registry.checks), head \in Shas : CollapseStep(i, head)

SpecCollapse == InitCollapse /\ [][NextCollapse]_vars

----------------------------------------------------------------------------
(* Properties of the merge gate (SpecGate) *)

\* the most recent write to a context of the pull request's head commit
LastWrite(log, ctx) ==
    LET idx == {i \in 1..Len(log) : log[i].sha = HeadSha /\ log[i].context = ctx}
    IN  IF idx = {} THEN [state |-> "none", description |-> <<>>]
        ELSE log[CHOOSE i \in idx : \A j \in idx : j <= i]

\* the pass predicate of a check on a log
PassPredicate(check, log) ==
    IF check.mustPass
    THEN LastWrite(log, check.name).state = "success"
    ELSE LastWrite(log, check.name).state \notin {"none", "pending"}

AllMustRunPass(log) ==
    \A i \in 1..Len(registry.checks) :
        registry.checks[i].mustRun => PassPredicate(registry.checks[i], log)

\* the status written by the step "Calculate merge gate" of the last run of
\* the review-status job
Verdict ==
    IF last.approved THEN statuses[Len(statuses) - 1] ELSE statuses[Len(statuses)]

TargetBranch == pr.baseRef \in {"main", "master"}

HasMarker(description) == \E i \in 1..Len(description) : description[i] = "Overridden"

SomeApproved(revs) == \E u \in Users : revs[u] = "APPROVED"

\* C1: the verdict the evaluator writes for the commit is success or failure,
\* and it is success exactly when the pass predicate of every mustRun check
\* holds; a mustRun check without status fails it, a check with
\* mustRun = false has no influence.
C1_GateVerdict ==
    last.op = "review-status" =>
        /\ Verdict.context = PR_CHECKS_STATUS
        /\ Verdict.sha = HeadSha
        /\ Verdict.state \in {"success", "failure"}
        /\ Verdict.state = "success" <=> AllMustRunPass(statuses)
        /\ (\E i \in 1..Len(registry.checks) :
                /\ registry.checks[i].mustRun
                /\ LastWrite(statuses, registry.checks[i].name).state = "none")
             => Verdict.state = "failure"

\* a verdict of success although a check with mustRun = false has failed
C1_Witness ==
    /\ last.op = "review-status"
    /\ Verdict.state = "success"
    /\ \E i, j \in 1..Len(registry.checks) :
          /\ registry.checks[i].mustRun
          /\ ~registry.checks[j].mustRun /\ registry.checks[j].mustPass
          /\ LastWrite(statuses, registry.checks[j].name).state = "failure"

\* C2: with a single mustRun check the verdict is the check's pass predicate:
\* state = success when mustPass, state neither none nor pending otherwise.
C2_PassPredicate ==
    (last.op = "review-status" /\ Len(SelectSeq(registry.checks, LAMBDA c : c.mustRun)) = 1) =>
        LET c == CHOOSE c \in Range(registry.checks) : c.mustRun
            state == LastWrite(statuses, c.name).state
        IN  /\ c.mustPass => (Verdict.state = "success" <=> state = "success")
            /\ ~c.mustPass =>
                  (Verdict.state = "success" <=> state \notin {"none", "pending"})

\* a check that only has to run has failed, and the verdict is success
C2_Witness ==
    /\ last.op = "review-status"
    /\ Verdict.state = "success"
    /\ \E c \in Range(registry.checks) :
          /\ c.mustRun /\ ~c.mustPass
          /\ LastWrite(statuses, c.name).state = "failure"

\* the gate write and the notification of an override by `user`
IsOverrideWrite(user) ==
    /\ Len(statuses') = Len(statuses) + 1
    /\ SubSeq(statuses', 1, Len(statuses)) = statuses
    /\ LET e == statuses'[Len(statuses')]
       IN  /\ e.sha = HeadSha /\ e.context = PR_CHECKS_STATUS
           /\ e.state = "success"
           /\ HasMarker(e.description)
           /\ \E i \in 1..Len(e.description) : e.description[i] = "(@" \o user \o ")"
    /\ comments' = Append(comments, [kind |-> "override", user |-> user])

\* C3: an approval on a target branch runs the override: a gate that is
\* already success is left alone and nothing is posted, a gate that is failure
\* is written success with the marker and the approver, and a comment is posted.
C3_Override ==
    [][/\ (last'.op = "review" /\ last'.state = "approved") => ~TargetBranch
       /\ \A u \in Users :
            (last'.op = "override-gate" /\ last'.user = u) =>
               /\ reviews'[u] = "APPROVED"
               /\ LastWrite(statuses, PR_CHECKS_STATUS).state = "success"
                     => (statuses' = statuses /\ comments' = comments)
               /\ LastWrite(statuses, PR_CHECKS_STATUS).state = "failure"
                     => IsOverrideWrite(u)]_vars

\* an override has just replaced a failure verdict
C3_Witness ==
    /\ last.op = "override-gate"
    /\ Len(statuses) >= 2
    /\ statuses[Len(statuses) - 1].context = PR_CHECKS_STATUS
    /\ statuses[Len(statuses) - 1].state = "failure"
    /\ statuses[Len(statuses)].context = PR_CHECKS_STATUS
    /\ statuses[Len(statuses)].state = "success"
    /\ HasMarker(statuses[Len(statuses)].description)
    /\ comments # <<>> /\ comments[Len(comments)].kind = "override"

\* C4: a review event writes the gate only for an approval on a target branch
\* while the latest gate state is failure.
C4_OverrideOnlyOnFailure ==
    [][(last'.op \in {"override-gate", "review"} /\ statuses' # statuses) =>
          /\ last'.op = "override-gate"
          /\ TargetBranch
          /\ LastWrite(statuses, PR_CHECKS_STATUS).state = "failure"]_vars

\* C5: a dismissal that leaves another approved review writes nothing.
C5_RestoreKeepsOtherApproval ==
    [][(last'.op \in {"restore-gate", "dismissal"} /\ SomeApproved(reviews')) =>
          (statuses' = statuses /\ comments' = comments)]_vars

\* the first approval was dismissed while a second one stands, and the gate
\* is still success by override although a mustRun check fails
C5_Witness ==
    /\ last.op = "restore-gate"
    /\ \E u, v \in Users : reviews[u] = "DISMISSED" /\ reviews[v] = "APPROVED"
    /\ LastWrite(statuses, PR_CHECKS_STATUS).state = "success"
    /\ HasMarker(LastWrite(statuses, PR_CHECKS_STATUS).description)
    /\ ~AllMustRunPass(statuses)

\* C6: a dismissal changes the gate only when its latest state is success and
\* its description carries the override marker.
C6_RestoreOnlyOverridden ==
    [][(last'.op \in {"restore-gate", "dismissal"}
            /\ (statuses' # statuses \/ comments' # comments)) =>
          /\ LastWrite(statuses, PR_CHECKS_STATUS).state = "success"
          /\ HasMarker(LastWrite(statuses, PR_CHECKS_STATUS).description)]_vars

\* the last approval was dismissed while the gate was success by passing
\* checks and a mustRun check has failed since: the gate was left alone
C6_Witness ==
    /\ last.op = "restore-gate"
    /\ ~SomeApproved(reviews)
    /\ LastWrite(statuses, PR_CHECKS_STATUS).state = "success"
    /\ ~HasMarker(LastWrite(statuses, PR_CHECKS_STATUS).description)
    /\ ~AllMustRunPass(statuses)

RestoreApplies ==
    /\ last'.op = "restore-gate"
    /\ ~SomeApproved(reviews')
    /\ LastWrite(statuses, PR_CHECKS_STATUS).state = "success"
    /\ HasMarker(LastWrite(statuses, PR_CHECKS_STATUS).description)

\* C7: when restore applies and a mustRun check fails its pass predicate, the
\* gate is written failure with "Approval required" and a comment is posted.
C7_RestoreWritesFailure ==
    [][(RestoreApplies /\ ~AllMustRunPass(statuses)) =>
          /\ statuses' = Append(statuses,
                [sha |-> HeadSha, context |-> PR_CHECKS_STATUS, state |-> "failure",
                 description |-> <<"Approval", "required">>,
                 updated_at |-> Len(statuses) + 1])
          /\ comments' = Append(comments, [kind |-> "restore", user |-> ""])]_vars

\* the gate was restored to failure after an override
C7_Witness ==
    /\ last.op = "restore-gate"
    /\ Len(statuses) >= 2
    /\ statuses[Len(statuses)].context = PR_CHECKS_STATUS
    /\ statuses[Len(statuses)].state = "failure"
    /\ LastWrite(SubSeq(statuses, 1, Len(statuses) - 1), PR_CHECKS_STATUS).state = "success"
    /\ comments # <<>> /\ comments[Len(comments)].kind = "restore"

\* C8: when restore applies and every mustRun check passes, nothing is written.
C8_RestoreSuperseded ==
    [][(RestoreApplies /\ AllMustRunPass(statuses)) =>
          (statuses' = statuses /\ comments' = comments)]_vars

\* the only approval was dismissed, the gate is success by override and a
\* mustRun, mustPass check has succeeded since
C8_Witness ==
    /\ last.op = "restore-gate"
    /\ ~SomeApproved(reviews)
    /\ LastWrite(statuses, PR_CHECKS_STATUS).state = "success"
    /\ HasMarker(LastWrite(statuses, PR_CHECKS_STATUS).description)
    /\ AllMustRunPass(statuses)
    /\ \E c \in Range(registry.checks) : c.mustRun /\ c.mustPass

\* the mustRun checks, in registry order, that fail their pass predicate
FailingChecks(log) ==
    SelectSeq(registry.checks, LAMBDA c : c.mustRun /\ ~PassPredicate(c, log))

\* C18: when the verdict is failure, the failure reason of the run names the
\* first check, in registry order, that fails its pass predicate.
C18_ReasonNamesFirstFailing ==
    (last.op = "review-status" /\ last.failed) =>
        LET log == SubSeq(statuses, 1, Len(statuses) - (IF last.approved THEN 2 ELSE 1))
        IN  /\ FailingChecks(log) # <<>>
            /\ last.reason # <<>>
            /\ last.reason[1] = FailingChecks(log)[1].name

\* the gate was failure, `user` holds the only approval and the override of
\* that approval has just written the gate success over the failure, while a
\* mustRun check still fails its pass predicate
JustOverridden(user) ==
    /\ TargetBranch
    /\ last.op = "override-gate" /\ last.user = user
    /\ \A u \in Users : reviews[u] = "APPROVED" <=> u = user
    /\ Len(statuses) >= 2
    /\ statuses[Len(statuses) - 1].context = PR_CHECKS_STATUS
    /\ statuses[Len(statuses) - 1].state = "failure"
    /\ statuses[Len(statuses)].context = PR_CHECKS_STATUS
    /\ statuses[Len(statuses)].state = "success"
    /\ ~AllMustRunPass(statuses)

C20_OverrideFrame ==
    [][last'.op = "override-gate" =>
          /\ \/ statuses' = statuses
             \/ /\ Len(statuses') = Len(statuses) + 1
                /\ SubSeq(statuses', 1, Len(statuses)) = statuses
                /\ statuses'[Len(statuses')].context = "PR Checks Status"
                /\ statuses'[Len(statuses')].sha = HeadSha
          /\ \A i \in 1..Len(registry.checks) :
                LastWrite(statuses', registry.checks[i].name)
                    = LastWrite(statuses, registry.checks[i].name)
          /\ registry' = registry /\ pr' = pr]_vars

\* an override has masked the gate while the latest status of a mustRun,
\* mustPass check is still failure
C20_Witness ==
    /\ last.op = "override-gate"
    /\ statuses # <<>>
    /\ statuses[Len(statuses)].context = "PR Checks Status"
    /\ statuses[Len(statuses)].state = "success"
    /\ HasMarker(statuses[Len(statuses)].description)
    /\ \E c \in Range(registry.checks) :
          /\ c.mustRun /\ c.mustPass
          /\ LastWrite(statuses, c.name).state = "failure"

\* the states written to a context of the head commit, oldest first
History(log, ctx) ==
    LET entries == SelectSeq(log, LAMBDA e : e.sha = HeadSha /\ e.context = ctx)
    IN  [i \in DOMAIN entries |-> entries[i].state]

\* C30: the timestamps of the log increase, and the evaluator goes by the
\* last write to each context: a mustRun check whose last state is not
\* success fails the gate if it must pass, whatever it was before, and a
\* mustRun check without any entry (state none) fails the gate.
C30_LastWriteWins ==
    /\ \A i, j \in 1..Len(statuses) :
          i < j => statuses[i].updated_at < statuses[j].updated_at
    /\ last.op = "review-status" =>
          \A c \in Range(registry.checks) :
              LET h == History(statuses, c.name)
              IN  /\ (c.mustRun /\ c.mustPass /\ h # <<>> /\ h[Len(h)] # "success")
                        => last.failed
                  /\ (c.mustRun /\ h = <<>>) => last.failed
                  /\ (\A d \in Range(registry.checks) :
                          LET g == History(statuses, d.name)
                          IN  d.mustRun =>
                                /\ g # <<>>
                                /\ d.mustPass => g[Len(g)] = "success"
                                /\ ~d.mustPass => g[Len(g)] # "pending")
                        => ~last.failed

\* a check that must pass succeeded and then failed; the evaluator, run
\* after both writes, failed the gate
C30_Witness ==
    /\ last.op = "review-status"
    /\ last.failed
    /\ \E c \in Range(registry.checks) :
          /\ c.mustRun /\ c.mustPass
          /\ History(statuses, c.name) = <<"success", "failure">>
    /\ \A c \in Range(registry.checks) :
          c.mustRun => History(statuses, c.name) # <<>>

\* position of the last entry of the log that satisfies P, 0 if none
LastIndex(log, P(_)) ==
    LET idx == {i \in 1..Len(log) : P(log[i])}
    IN  IF idx = {} THEN 0 ELSE CHOOSE i \in idx : \A j \in idx : j <= i

IsCheckEntry(e) == e.context # "PR Checks Status"

\* a verdict computed from the statuses of the checks
IsEvaluation(e) ==
    /\ e.context = "PR Checks Status"
    /\ e.description \in {<<"All", "required", "checks", "passed">>,
                          <<"Approval", "required">>}

\* no run is in progress: every status a check has reported was followed by
\* an evaluation of the gate
NoRunInProgress ==
    LastIndex(statuses, IsCheckEntry) <= LastIndex(statuses, IsEvaluation)

\* C34: when no run is in progress and the latest gate state is success,
\* every mustRun check passes or some review of the pull request is approved.
C34_SuccessIsBacked ==
    (NoRunInProgress /\ LastWrite(statuses, "PR Checks Status").state = "success") =>
        AllMustRunPass(statuses) \/ SomeApproved(reviews)

\* C35: when the evaluator has run and a mustRun check fails its pass
\* predicate, the latest gate status is success with the override description
\* if some review is approved, and failure "Approval required" otherwise.
C35_EvaluatorOverridesOnApproval ==
    (last.op = "review-status" /\ ~AllMustRunPass(statuses)) =>
        LET gate == LastWrite(statuses, "PR Checks Status")
        IN  IF SomeApproved(reviews)
            THEN /\ gate.state = "success"
                 /\ gate.description = <<"Overridden", "by", "approval">>
                 /\ statuses[Len(statuses) - 1].state = "failure"
            ELSE /\ gate.state = "failure"
                 /\ gate.description = <<"Approval", "required">>

\* one approved review, a failing mustRun check: the evaluator wrote failure
\* and then success by override
C35_Witness ==
    /\ last.op = "review-status"
    /\ ~AllMustRunPass(statuses)
    /\ Cardinality({u \in Users : reviews[u] = "APPROVED"}) = 1
    /\ LastWrite(statuses, "PR Checks Status").state = "success"
    /\ HasMarker(LastWrite(statuses, "PR Checks Status").description)

\* C36: a status written to the gate carries the marker exactly when it is an
\* override write, of override-gate or of the evaluator's approval step, and
\* then its state is success; the statuses of the checks never carry it.
C36_MarkerIffOverride ==
    [][\A i \in (Len(statuses) + 1)..Len(statuses') :
          LET e == statuses'[i]
              byOverrideGate == last'.op = "override-gate"
              byEvaluator == /\ last'.op = "review-status"
                             /\ i = Len(statuses) + 2
          IN  /\ e.context # "PR Checks Status" => ~HasMarker(e.description)
              /\ e.context = "PR Checks Status" =>
                    /\ HasMarker(e.description) <=> (byOverrideGate \/ byEvaluator)
                    /\ HasMarker(e.description) => e.state = "success"
              /\ (last'.op = "review-status" /\ ~AllMustRunPass(statuses)
                    /\ SomeApproved(reviews)) => Len(statuses') = Len(statuses) + 2]_vars

\* the latest gate status is the override of the evaluator, written after its
\* failure verdict
C36_Witness ==
    /\ last.op = "review-status"
    /\ Len(statuses) >= 2
    /\ statuses[Len(statuses)].context = "PR Checks Status"
    /\ HasMarker(statuses[Len(statuses)].description)
    /\ statuses[Len(statuses) - 1].context = "PR Checks Status"
    /\ ~HasMarker(statuses[Len(statuses) - 1].description)

\* C29: in a repository generated with generateApprovalOverride false no job
\* of the approval workflow runs, and a run of the review-status job never
\* leaves the gate at success while a mustRun check's pass predicate is false.
C29_NoOverrideWithoutFlag ==
    ~registry.generateApprovalOverride =>
        /\ last.op \notin {"override-gate", "restore-gate"}
        /\ (last.op = "review-status" /\ ~AllMustRunPass(statuses)) =>
               LastWrite(statuses, "PR Checks Status").state # "success"

\* C22: when the read of a mustRun check's statuses has failed in a run of
\* the review-status job, the verdict the run writes is not success.
C22_FailedReadNeverPasses ==
    (last.op = "review-status" /\ last.unread # {}) => Verdict.state # "success"

----------------------------------------------------------------------------
(* Properties of the trigger classification (SpecTrigger) *)

\* C9: on github a comment continues only if the permission looked up is
\* owner, admin, maintain or write; with any other answer the job stops with
\* should_continue = false before the comment is parsed.
C9_PermissionGate ==
    (event.kind = "issue_comment" /\ registry.platform = "github") =>
        /\ decision.should_continue = "true"
              => event.permission \in {"owner", "admin", "maintain", "write"}
        /\ event.permission \notin {"owner", "admin", "maintain", "write"}
              => /\ decision.should_continue = "false"
                 /\ decision.trigger = ""
                 /\ decision.is_official = ""
                 /\ decision.user_message = <<>>

\* a comment on the pull request that is a registered trigger, from a user
\* with read permission
C9_Witness ==
    /\ event.kind = "issue_comment" /\ registry.platform = "github"
    /\ event.isPr /\ event.permission = "read"
    /\ event.body = << <<"/test">> >>
    /\ event.http = "200" /\ event.headSha # ""
    /\ decision.should_continue = "false"

\* C10: a pull_request event of a draft never continues and auto-runs nothing.
C10_DraftNeverContinues ==
    (event.kind = "pull_request" /\ event.draft) =>
        /\ decision.should_continue # "true"
        /\ \A n \in DOMAIN decision.auto_run : decision.auto_run[n] # "true"

\* a draft is opened and a check is configured to run on opened
C10_Witness ==
    /\ event.kind = "pull_request" /\ event.draft /\ event.action = "opened"
    /\ \E c \in Range(registry.checks) : c.autoRunOn = <<{"opened"}>>
    /\ decision.should_continue = "false"

\* the first whitespace-delimited token of the first non-blank line of a body
FirstToken(body) ==
    LET lines == SelectSeq(body, LAMBDA l : l # <<>>)
    IN  IF lines = <<>> THEN "" ELSE Head(Head(lines))

RegisteredTriggers ==
    {registry.checks[i].trigger : i \in 1..Len(registry.checks)} \cup {registry.ciTrigger}

\* C11: a comment continues only if the first token of its first non-blank
\* line equals a registered trigger, individual or collective, and that token
\* is the fired trigger; every other body ends with should_continue = false.
C11_ExactTrigger ==
    event.kind = "issue_comment" =>
        /\ decision.should_continue = "true"
              => /\ FirstToken(event.body) \in RegisteredTriggers
                 /\ decision.trigger = FirstToken(event.body)
        /\ FirstToken(event.body) \notin RegisteredTriggers
              => decision.should_continue = "false"

\* the lines of a body that hold text
TextLines(body) == SelectSeq(body, LAMBDA l : l # <<>>)

\* C17: for a comment that fires a trigger, is_official is true exactly when
\* nothing but whitespace and blank lines surrounds the trigger word: the
\* trigger is the only token of the only line with text.
C17_OfficialIffBare ==
    (event.kind = "issue_comment" /\ decision.should_continue = "true") =>
        /\ decision.is_official \in {"true", "false"}
        /\ decision.is_official = "true"
              <=> (Len(TextLines(event.body)) = 1 /\ Len(TextLines(event.body)[1]) = 1)

\* a trigger followed by a blank line fired an official run
C17_Witness ==
    /\ event.kind = "issue_comment" /\ decision.should_continue = "true"
    /\ event.body = << <<"/test">>, <<>> >>
    /\ decision.is_official = "true"

\* the actions on which a check runs without a comment: its autoRunOn, and
\* when that is not set, synchronize for a mustRun check and no action for
\* an optional one
ConfiguredActions(c) ==
    IF c.autoRunOn # <<>> THEN c.autoRunOn[1]
    ELSE IF c.mustRun THEN {"synchronize"} ELSE {}

PushDecision ==
    /\ decision.should_continue = "true"
    /\ decision.trigger = ""
    /\ decision.is_official = "true"
    /\ \A c \in Range(registry.checks) :
          decision.auto_run[c.name] = "true" <=> event.action \in ConfiguredActions(c)

\* C16 as stated: every pull_request event of a pull request that is not a
\* draft, whatever its action, continues with no trigger, as an official run,
\* and auto_run of a check tells whether the action is one of the check's.
C16_EveryPushContinues ==
    (event.kind = "pull_request" /\ ~event.draft) => PushDecision

\* C16: a pull_request event of a pull request that is not a draft continues
\* with no trigger, as an official run and with auto_run of each check telling
\* whether the action is one of the check's, when its action is one on which
\* some check runs; for any other action the job is skipped and sets no output.
C16_PushDecision ==
    (event.kind = "pull_request" /\ ~event.draft) =>
        IF \E c \in Range(registry.checks) : event.action \in ConfiguredActions(c)
        THEN PushDecision
        ELSE /\ decision.should_continue = ""
             /\ decision.trigger = "" /\ decision.is_official = ""
             /\ \A c \in Range(registry.checks) : decision.auto_run[c.name] = ""

\* a pull request was opened, one check runs on opened, the other does not
C16_Witness ==
    /\ event.kind = "pull_request" /\ ~event.draft /\ event.action = "opened"
    /\ decision.should_continue = "true"
    /\ \E c, d \in Range(registry.checks) :
          /\ decision.auto_run[c.name] = "true"
          /\ decision.auto_run[d.name] = "false"

\* C21: a comment whose permission lookup (on github) returns nothing, or
\* whose pull request lookup does not return 200 or returns no head sha, ends
\* with should_continue = false, no trigger and no head sha.
C21_LookupFailureAborts ==
    (event.kind = "issue_comment"
        /\ \/ registry.platform = "github" /\ event.permission = ""
           \/ event.http # "200"
           \/ event.headSha = "") =>
        /\ decision.should_continue = "false"
        /\ decision.trigger = ""
        /\ decision.head_sha = ""
        /\ decision.pr_number = ""

\* a permitted user's bare trigger on the pull request, and the pull request
\* lookup answered 404
C21_Witness ==
    /\ event.kind = "issue_comment" /\ event.isPr
    /\ event.permission = "write"
    /\ event.body = << <<"/test">> >>
    /\ event.http = "404"
    /\ decision.should_continue = "false"
    /\ decision.is_official = "true"

\* C28: on gitea a comment on a pull request whose first token is a
\* registered trigger continues with that trigger, whatever the permission
\* of its author, when the pull request lookup returns 200 and a head sha.
C28_GiteaSkipsPermission ==
    (event.kind = "issue_comment" /\ event.isPr
        /\ registry.platform = "gitea"
        /\ FirstToken(event.body) \in RegisteredTriggers
        /\ event.http = "200" /\ event.headSha # "") =>
        /\ decision.should_continue = "true"
        /\ decision.trigger = FirstToken(event.body)
        /\ decision.head_sha = event.headSha

\* a user without any permission on the repository triggers the tests
C28_Witness ==
    /\ event.kind = "issue_comment" /\ event.isPr
    /\ registry.platform = "gitea"
    /\ event.permission = "none"
    /\ event.body = << <<"/test", "fix">> >>
    /\ event.http = "200" /\ event.headSha = HeadSha
    /\ decision.should_continue = "true"
    /\ decision.trigger = "/test"

----------------------------------------------------------------------------
(* Properties of a run of the checks (SpecRun) *)

CheckNames == {registry.checks[i].name : i \in 1..Len(registry.checks)}

TestChecks == {c \in Range(registry.checks) : c.type = "pr-test"}

ReviewChecks == {c \in Range(registry.checks) : c.type = "pr-review"}

Started(name) == jobs[name] \in {"running", "success", "failure"}

\* C12: a run whose is_official is false posts no status to the context of
\* any check, test or review.
C12_UnofficialWritesNoStatus ==
    [][(event # NoEvent /\ decision.is_official = "false") =>
          \A i \in (Len(statuses) + 1)..Len(statuses') :
              statuses'[i].context \notin CheckNames]_vars

\* C13: in a run of the collective trigger the job of a mustRun review check
\* has started only if the job of every mustRun test check has ended with
\* success, and it has been skipped only if one of them has failed.
C13_ReviewAfterTests ==
    (event # NoEvent /\ decision.should_continue = "true"
        /\ decision.trigger = "/checks") =>
        \A c \in ReviewChecks : c.mustRun =>
            /\ Started(c.name) =>
                  \A t \in TestChecks : t.mustRun => jobs[t.name] = "success"
            /\ jobs[c.name] = "skipped" =>
                  /\ \A t \in TestChecks : t.mustRun => jobs[t.name] \in {"success", "failure"}
                  /\ \E t \in TestChecks : t.mustRun /\ jobs[t.name] = "failure"

\* the collective trigger: one mustRun test passed, the other failed, and the
\* job of the mustRun review was skipped
C13_Witness ==
    /\ event # NoEvent /\ decision.should_continue = "true"
    /\ decision.trigger = "/checks"
    /\ \A c \in Range(registry.checks) : c.mustRun
    /\ jobs["pr-test"] = "success" /\ jobs["lint"] = "failure"
    /\ jobs["pr-review"] = "skipped"

\* C14: in a run of the trigger of a review check the job of no test check
\* starts, and the job of the review check is not skipped, whatever the
\* statuses of the test checks.
C14_OwnTriggerNoTests ==
    (event # NoEvent /\ decision.should_continue = "true") =>
        \A c \in ReviewChecks : decision.trigger = c.trigger =>
            /\ \A t \in TestChecks : jobs[t.name] \in {"queued", "skipped"}
            /\ jobs[c.name] # "skipped"

\* the review ran by its own trigger while the latest status of a mustRun test
\* is failure and the jobs of the tests were skipped
C14_Witness ==
    /\ event # NoEvent /\ decision.should_continue = "true"
    /\ decision.trigger = "/review"
    /\ \A c \in Range(registry.checks) : c.mustRun
    /\ LastWrite(statuses, "pr-test").state = "failure"
    /\ jobs["pr-test"] = "skipped" /\ jobs["lint"] = "skipped"
    /\ jobs["pr-review"] = "success"

\* the test-success gate of a review check: in a run of the collective
\* trigger every mustRun test job has ended with success
TestsGate(c) ==
    (c.type = "pr-review" /\ c.mustRun /\ decision.trigger = "/checks") =>
        \A t \in TestChecks : t.mustRun => jobs[t.name] = "success"

Selected(c) ==
    /\ \/ decision.trigger = c.trigger
       \/ c.mustRun /\ decision.trigger = "/checks"
       \/ decision.auto_run[c.name] = "true"
    /\ TestsGate(c)

\* C15: in a run that continues, the job of a check starts exactly when the
\* trigger is the check's own, or the collective one and the check is mustRun,
\* or auto_run of the check is true, a review check being subject to the
\* test-success gate; so the collective trigger starts the mustRun checks
\* only, a check's trigger that check only, and a pull_request event the
\* checks configured for its action.
C15_JobSelection ==
    (event # NoEvent /\ decision.should_continue = "true") =>
        \A c \in Range(registry.checks) :
            /\ Started(c.name) => Selected(c)
            /\ jobs[c.name] = "skipped" => ~Selected(c)
            /\ (jobs[c.name] # "queued" /\ TestsGate(c)) =>
                  (Started(c.name) <=>
                      IF event.kind = "pull_request"
                      THEN event.action \in ConfiguredActions(c)
                      ELSE IF decision.trigger = "/checks" THEN c.mustRun
                      ELSE decision.trigger = c.trigger)

\* the collective trigger started the mustRun test and skipped the optional one
C15_Witness ==
    /\ event # NoEvent /\ decision.should_continue = "true"
    /\ decision.trigger = "/checks"
    /\ \E c, d \in TestChecks :
          /\ c.mustRun /\ jobs[c.name] = "success"
          /\ ~d.mustRun /\ jobs[d.name] = "skipped"

----------------------------------------------------------------------------
(* Properties of the workflow runs (SpecConcurrency) *)

\* C23: no two runs of the same pull request, each of a workflow that writes
\* the gate (pr-checks evaluates it, approval-override overrides and restores
\* it), are in progress together, and no run is cancelled.
C23_GateRunsSerialized ==
    /\ \A i, j \in 1..Len(runs) :
          (i # j /\ runs[i].pr = runs[j].pr /\ runs[i].status = "in_progress")
              => runs[j].status # "in_progress"
    /\ \A i \in 1..Len(runs) : runs[i].status # "cancelled"


----------------------------------------------------------------------------
(* Properties of the generator (SpecCli) *)

\* readConfig has returned a registry built from the file config.yml
AcceptedFromFile == cli.op \in {"read", "cancelled", "generated"} /\ cli.file # <<>>

RawCheckList(parsed) == IF parsed.checks = <<>> THEN <<>> ELSE parsed.checks[1]

PairwiseDistinct(seq) == \A i, j \in DOMAIN seq : i # j => seq[i] # seq[j]

\* C25: every accepted registry has pairwise distinct check names, pairwise
\* distinct triggers and a collective trigger different from every check's
\* trigger, and no raw configuration with a duplicate name, a duplicate
\* trigger or a collective trigger equal to a check's trigger is accepted.
C25_NoDuplicatesAccepted ==
    AcceptedFromFile =>
        LET checks == cli.config.value.checks
            raw == RawCheckList(cli.file[1])
        IN  /\ PairwiseDistinct([i \in DOMAIN checks |-> checks[i].name])
            /\ PairwiseDistinct([i \in DOMAIN checks |-> checks[i].trigger])
            /\ \A i \in DOMAIN checks : checks[i].trigger # cli.config.value.ciTrigger
            /\ PairwiseDistinct([i \in DOMAIN raw |-> raw[i].name])
            /\ PairwiseDistinct([i \in DOMAIN raw |-> raw[i].trigger])
            /\ \A i \in DOMAIN raw : cli.file[1].ciTrigger # <<raw[i].trigger>>

\* C26: a configuration file whose check list or branch list is empty is
\* rejected, and every accepted registry has at least one check and at least
\* one branch.
C26_EmptyListsRejected ==
    AcceptedFromFile =>
        /\ cli.file[1].checks # << <<>> >>
        /\ cli.file[1].branches # << <<>> >>
        /\ Len(cli.config.value.checks) >= 1
        /\ Len(cli.config.value.branches) >= 1

\* the file has been written by generateWorkflowFiles
Written(f) == f.from # <<>>

\* C27: every file the generator has written comes from the configuration
\* that readConfig returned, that configuration passes validation, and when
\* readConfig has raised an error the files are those that were there before.
C27_FilesOnlyFromValidConfig ==
    /\ \A f \in cli.files :
          Written(f) => /\ cli.op = "generated"
                        /\ cli.config.ok
                        /\ f.from = <<cli.config.value>>
                        /\ ~validateConfig(cli.config.value)
    /\ cli.op = "rejected" => cli.files \in {{}, OldFiles}

C27_Witness ==
    /\ cli.op = "rejected"
    /\ cli.file # <<>>
    /\ cli.file[1].branches = << <<>> >>
    /\ cli.files = OldFiles


----------------------------------------------------------------------------
(* Properties of the gate over two commits (SpecHeads) *)

\* the most recent write to a context of the commit sha
LastWriteOn(log, sha, ctx) ==
    LET idx == {i \in 1..Len(log) : log[i].sha = sha /\ log[i].context = ctx}
    IN  IF idx = {} THEN [state |-> "none", description |-> <<>>]
        ELSE log[CHOOSE i \in idx : \A j \in idx : j <= i]

PassesOn(check, log, sha) ==
    IF check.mustPass
    THEN LastWriteOn(log, sha, check.name).state = "success"
    ELSE LastWriteOn(log, sha, check.name).state \notin {"none", "pending"}

\* C31: every step only appends statuses, each for the head commit of the
\* pull request at the event; the gate of any other commit stays as it is,
\* the evaluator judges by the statuses of that head commit alone, and an
\* override is written only when the gate of that commit is not success.
C31_KeyedBySha ==
    [][/\ SubSeq(statuses', 1, Len(statuses)) = statuses
       /\ \A i \in (Len(statuses) + 1)..Len(statuses') : statuses'[i].sha = pr.headSha
       /\ \A sha \in {"sha1", "sha2"} \ {pr.headSha} :
             LastWriteOn(statuses', sha, "PR Checks Status")
                = LastWriteOn(statuses, sha, "PR Checks Status")
       /\ last'.op = "review-status" =>
             (last'.failed <=> \E c \in Range(registry.checks) :
                                  c.mustRun /\ ~PassesOn(c, statuses, pr.headSha))
       /\ (last'.op = "override-gate" /\ statuses' # statuses) =>
             LastWriteOn(statuses, pr.headSha, "PR Checks Status").state # "success"]_vars

\* the test passed on the first commit; after the push the evaluator fails
\* the gate of the second commit and leaves the first one alone
C31_Witness ==
    /\ pr.headSha = "sha2"
    /\ last.op = "review-status" /\ last.failed
    /\ LastWriteOn(statuses, "sha1", "pr-test").state = "success"
    /\ LastWriteOn(statuses, "sha1", "PR Checks Status").state = "none"
    /\ LastWriteOn(statuses, "sha2", "PR Checks Status").state = "failure"


----------------------------------------------------------------------------
(* Properties of a whole run (SpecFlow) *)

Terminal(result) == result \in {"success", "failure", "skipped"}

RunFinished == event # NoEvent /\ \A n \in DOMAIN jobs : Terminal(jobs[n])

\* the verdicts written to the gate of a commit: its entries that are not pending
Verdicts(log, sha) ==
    SelectSeq(log, LAMBDA e : e.sha = sha /\ e.context = "PR Checks Status"
                              /\ e.state # "pending")

\* C32: in a run whose decision continues the evaluator is never skipped, has
\* not run before every check job is terminal, writes one verdict, success or
\* failure, for the head sha of the decision, and when the run is finished
\* the latest gate status of that commit is that verdict, not pending.
C32_EvaluatorRunsOnceAtEnd ==
    (event # NoEvent /\ decision.should_continue = "true") =>
        /\ jobs["review-status"] # "skipped"
        /\ jobs["review-status"] = "success" =>
              \A c \in Range(registry.checks) : Terminal(jobs[c.name])
        /\ Len(Verdicts(statuses, decision.head_sha))
              = IF jobs["review-status"] = "success" THEN 1 ELSE 0
        /\ RunFinished =>
              /\ jobs["review-status"] = "success"
              /\ LastWriteOn(statuses, decision.head_sha, "PR Checks Status").state
                    \in {"success", "failure"}

\* C33: a comment classified with should_continue = false starts no check job
\* and no gate evaluation, and no status and no comment is written.
C33_RejectedCommentChangesNothing ==
    (event.kind = "issue_comment" /\ decision.should_continue = "false") =>
        /\ \A n \in DOMAIN jobs : jobs[n] \in {"queued", "skipped"}
        /\ statuses = <<>>
        /\ comments = <<>>

\* the collective trigger by a user with read permission: every job skipped
C33_Witness ==
    /\ event.kind = "issue_comment" /\ event.permission = "read"
    /\ event.body = << <<"/checks">> >>
    /\ decision.should_continue = "false"
    /\ \A n \in DOMAIN jobs : jobs[n] = "skipped"
    /\ statuses = <<>>

\* C37: in a run started by a comment, a test job that has written its status
\* to the head sha of the decision has run on that commit.
C37_StatusOnTestedCommit ==
    event.kind = "issue_comment" =>
        \A c \in Range(registry.checks) :
            (c.type = "pr-test" /\ jobs[c.name] \in {"success", "failure"}) =>
                /\ LastWriteOn(statuses, decision.head_sha, c.name).state = jobs[c.name]
                /\ tested[c.name] = decision.head_sha

\* C38: a mustRun review check that is to run (own trigger, or auto run on a
\* pull request event) in a run whose trigger is not the collective one does
\* not start before every mustRun test job is terminal and is never skipped,
\* whatever the results of the test jobs.
C38_ReviewNotGatedOffCollective ==
    (event # NoEvent /\ decision.should_continue = "true"
        /\ decision.trigger # "/checks") =>
        \A c \in Range(registry.checks) :
            (c.type = "pr-review" /\ c.mustRun
                /\ (decision.trigger = c.trigger \/ decision.auto_run[c.name] = "true")) =>
                /\ jobs[c.name] # "skipped"
                /\ jobs[c.name] # "queued" =>
                      \A t \in Range(registry.checks) :
                          (t.type = "pr-test" /\ t.mustRun) => Terminal(jobs[t.name])

\* a push: the mustRun test failed and the review, which runs automatically,
\* has run
C38_Witness ==
    /\ event.kind = "pull_request" /\ event.action = "synchronize"
    /\ decision.trigger = ""
    /\ \E c, t \in Range(registry.checks) :
          /\ c.type = "pr-review" /\ c.mustRun /\ decision.auto_run[c.name] = "true"
          /\ t.type = "pr-test" /\ t.mustRun /\ jobs[t.name] = "failure"
          /\ jobs[c.name] = "success"

\* C39: in a run for an opened pull request in which a check runs
\* automatically, once guide-comment and the evaluator have both written, the
\* latest gate status of the commit is the evaluator's verdict.
C39_PendingBeforeVerdict ==
    (event.kind = "pull_request" /\ event.action = "opened"
        /\ decision.should_continue = "true"
        /\ jobs["guide-comment"] = "success" /\ jobs["review-status"] = "success") =>
        LastWriteOn(statuses, event.headSha, "PR Checks Status").state # "pending"

----------------------------------------------------------------------------
(* Properties of the collapse step (SpecCollapse) *)

\* the value of a field of the metadata of a comment, as the characters
\* between the quotes that follow its key
MetadataField(key, body) ==
    LET j == Find(key, body.line, 1)
        from == j + Len(key)
        ends == {k \in from..Len(body.line) : body.line[k] = "\""}
    IN  IF j = 0 \/ ends = {} THEN <<>>
        ELSE SubSeq(body.line, from, (CHOOSE k \in ends : \A h \in ends : k <= h) - 1)

HasText(text, body) == Find(text, body.line, 1) # 0

\* the collapse step of check c changed comment k for the right reasons
SelectedRightly(c, head, before, k) ==
    /\ MetadataField(Text("\",\"check\":\""), before[k]) = Text(c.name)
    /\ HasText(Text("\"collapsed\":false"), before[k])
    /\ MetadataField(Text("\",\"sha\":\""), before[k]) # Text(head)

\* the collapsed comment is marked, and no further step of the check, for
\* any head and with every request answered, changes it
MarkedForGood(c, after, k) ==
    /\ HasText(Text("\"collapsed\":true"), after[k])
    /\ ~HasText(Text("\"collapsed\":false"), after[k])
    /\ \A h \in Shas :
           CollapseComments(c, after, Collapsible(c, h, after), {})[k] = after[k]

\* C40: the collapse step of a check changes only comments whose metadata
\* names that check with collapsed:false and a sha other than the head of the
\* run, and it leaves each comment it changed marked collapsed:true, so that
\* the step run again does not change that comment
C40_CollapseSelectiveIdempotent ==
    [][last'.op = "collapse" =>
          \A k \in 1..Len(comments) :
              comments'[k] # comments[k] =>
                  /\ SelectedRightly(registry.checks[last'.check], last'.head,
                                     comments, k)
                  /\ MarkedForGood(registry.checks[last'.check], comments', k)]_vars

============================================================================
